---- MODULE Spec2Model ----
(***************************************************************************)
(* Port manager of dr-cursored (scripts/ports.mjs) together with the       *)
(* HealthChecker port probe (lib/health.mjs).                              *)
(*                                                                         *)
(* The operating system is part of the state: which process listens on     *)
(* which port, which processes are alive, whether the tool runs as root    *)
(* and on which platform.  Every await and every spawnSync of the code is  *)
(* one step, and other processes may bind ports or exit between steps.     *)
(* Strings the code parses are sequences of one-character strings.         *)
(***************************************************************************)
EXTENDS Integers, Sequences, FiniteSets, TLC

VARIABLES
    listener,      \* OS: port -> pid of the process listening on it, or NoPid
    alive,         \* OS: the set of live processes
    isRoot,        \* OS: the tool runs with elevated privileges
    platform,      \* process.platform: "posix" or "win32"
    envSteps,      \* number of steps other processes have taken so far
    selfBound,     \* the ports the probe's own http server holds (at most one)
    op,            \* the operation in progress: "none", "ports", "scanPorts", "health"
    pc,            \* position inside the operation
    phase,         \* position inside checkPort: "call", "listening", "errored"
    specificPort,  \* runPorts: the port text given by the caller, <<>> when absent
    kill,          \* runPorts: the kill option
    port,          \* the port being handled (runPorts: parseInt result; scanPorts: loop counter)
    endPort,       \* scanPorts: the last port of the range
    startPort,     \* scanPorts: the first port of the range
    idx,           \* runPorts scan mode: index into commonPorts
    proc,          \* the occupant getProcessUsingPort returned, or NoProc
    results,       \* the result list of a scan
    output,        \* what the operation printed, in order
    probeLog,      \* history: every bind attempt made, with what the OS answered
    lookupLog,     \* history: every occupant lookup made
    killLog,       \* history: every termination command issued
    (* service manager *)
    runningProcesses, \* the Map name -> processInfo, as its entries in insertion order
    children,      \* OS: the spawned children, by pid: service name and state
    startTimers,   \* restartService: the pending setTimeout(startService, 1000) calls
    killTimers,    \* stopService: the pids with a pending setTimeout(..., 5000)
    sigLog,        \* every process.kill(pid, signal) call made so far, in order
    svcPc,         \* the service manager process: "running" or "exited"
    (* clean *)
    fs,            \* the paths that exist under process.cwd()
    fsBefore,      \* the paths that existed when runClean was called
    dry,           \* runClean: --dry
    all,           \* runClean: --all
    selectedCategories, \* runClean: the categories to clean, in order
    catIdx,        \* runClean: position in selectedCategories
    patIdx,        \* runClean: position in the category's patterns
    totalCleaned,  \* runClean: the item count reported at the end
    cleanPc,       \* position inside runClean
    (* doctor *)
    pkgJson,       \* package.json: "missing", "invalid" (not JSON) or "valid"
    pkgDeps,       \* the names under dependencies and devDependencies
    projectFiles,  \* the configuration files present in the project directory
    detected,      \* the value detectProjectType returned, "" before the call
    (* logger *)
    loggers,       \* the Logger objects constructed so far
    console,       \* the entries written by log(), in order
    logCalls,      \* every log(level, message) call made so far, in order
    (* health checker *)
    memFree,       \* OS: os.freemem(), in units of which os.totalmem() is MemTotal
    memResult,     \* what checkMemory returned, << >> before the call
    hcChecks,      \* runHealthCheck: results.checks, << >> before the call
    hcOverall,     \* runHealthCheck: results.overall, "" before the call
    hcStatusCode,  \* the status the health endpoint answered with, 0 before
    hcPc,          \* "idle", "returned" (runHealthCheck) or "responded" (endpoint)
    (* runDoctor *)
    project,       \* what the checks of runDoctor find in the project and on the machine
    failed,        \* the module variable failed
    drPc,          \* position inside runDoctor
    drThrew,       \* an unexpected exception was thrown inside runDoctor
    exitStatus,    \* the status the doctor process ended with, -1 while it runs
    warnings,      \* the warnings runDoctor printed
    (* inspector *)
    metrics,       \* Inspector.metrics: name -> the metrics kept, oldest first
    recorded       \* the number of recordMetric calls made for each name

portsVars == << listener, alive, isRoot, platform, envSteps, selfBound, op, pc, phase,
               specificPort, kill, port, endPort, startPort, idx, proc, results,
               output, probeLog, lookupLog, killLog >>

svcVars == << runningProcesses, children, startTimers, killTimers, sigLog, svcPc >>

cleanVars == << fs, fsBefore, dry, all, selectedCategories, catIdx, patIdx, totalCleaned, cleanPc >>

doctorVars == << pkgJson, pkgDeps, projectFiles, detected >>

loggerVars == << loggers, console, logCalls >>

healthVars == << memFree, memResult, hcChecks, hcOverall, hcStatusCode, hcPc >>

runDoctorVars == << project, failed, drPc, drThrew, exitStatus, warnings >>

inspectorVars == << metrics, recorded >>

vars == << portsVars, svcVars, cleanVars, doctorVars, loggerVars, healthVars,
           runDoctorVars, inspectorVars >>

envVars == << listener, alive, isRoot, platform >>

-----------------------------------------------------------------------------
(* Bounds of the model *)

\* other processes take at most this many steps (bind a port, exit) during a run
MaxEnvSteps == 1
\* scanPorts ranges are [ScanBase + a, ScanBase + b] with 0 <= a <= b < MaxRange
MaxRange == 3

-----------------------------------------------------------------------------
(* The operating system *)

\* the pid of "no process"
NoPid == 0

\* the processes of the host; MyPids belong to the user running the tool
Pids == {101, 102}
MyPids == {101}

\* the first port of the ranges scanPorts is given
ScanBase == 3000

\* the ports other processes may listen on, in the order netstat lists them
EnvPortSeq == << 80, 3000, 3001, 30001 >>
EnvPorts == { EnvPortSeq[i] : i \in 1..Len(EnvPortSeq) }

Holder(p) == IF p \in EnvPorts THEN listener[p] ELSE NoPid

\* may the tool signal / see the sockets of process pid
Permitted(pid) == isRoot \/ pid \in MyPids

ProcName(pid) == IF pid = 101 THEN "node" ELSE "nginx"

-----------------------------------------------------------------------------
(* Text: a string is a sequence of one-character strings *)

DigitChars == << "0", "1", "2", "3", "4", "5", "6", "7", "8", "9" >>
IsDigit(c) == \E i \in 1..10 : DigitChars[i] = c
DigitVal(c) == (CHOOSE i \in 1..10 : DigitChars[i] = c) - 1

RECURSIVE SkipWs(_)
SkipWs(s) == IF s # <<>> /\ Head(s) = " " THEN SkipWs(Tail(s)) ELSE s

\* the value of the longest prefix of digits of s, continuing from acc
RECURSIVE DigitsValue(_, _)
DigitsValue(s, acc) ==
    IF s # <<>> /\ IsDigit(Head(s))
    THEN DigitsValue(Tail(s), acc * 10 + DigitVal(Head(s)))
    ELSE acc

\* JavaScript parseInt(s) without radix on text that has no "0x" prefix:
\* leading white space is skipped, a sign is taken, then the longest run of
\* digits; anything after it is ignored; no digit at all gives NaN
ParseInt(s) ==
    LET t == SkipWs(s)
        neg == t # <<>> /\ Head(t) = "-"
        u == IF t # <<>> /\ Head(t) \in {"-", "+"} THEN Tail(t) ELSE t
    IN  IF u = <<>> \/ ~IsDigit(Head(u))
        THEN [nan |-> TRUE, val |-> 0]
        ELSE [nan |-> FALSE, val |-> IF neg THEN 0 - DigitsValue(u, 0) ELSE DigitsValue(u, 0)]

\* the decimal digits of n >= 0, as String(n) writes them
RECURSIVE ToDigits(_)
ToDigits(n) == IF n < 10 THEN << n >> ELSE Append(ToDigits(n \div 10), n % 10)

IsPrefix(a, b) == Len(a) <= Len(b) /\ SubSeq(b, 1, Len(a)) = a

-----------------------------------------------------------------------------
(* checkPort: http.createServer().listen(port) *)

\* what the bind attempt of server.listen(p) meets
BindOutcome(p) ==
    IF p < 0 \/ p > 65535 THEN "BAD_PORT"       \* listen throws synchronously
    ELSE IF p = 0 THEN "ok"                      \* the OS picks any free port
    ELSE IF p < 1024 /\ platform = "posix" /\ ~isRoot THEN "EACCES"
    ELSE IF Holder(p) # NoPid \/ p \in selfBound THEN "EADDRINUSE"
    ELSE "ok"

\* checkPort with the error handler resolving free: true as well
checkPort_AlwaysFree(ph, p) == [free |-> TRUE, port |-> p]

\* checkPort with the two resolve calls swapped
checkPort_Inverted(ph, p) == [free |-> (ph # "listening"), port |-> p]

\* the value checkPort resolves with once the server is in the given phase
checkPort(ph, p) == [free |-> (ph = "listening"), port |-> p]

\* await without waiting: the caller goes on before the promise settles
Awaited_NoWait(ph) == TRUE

\* await checkPort(port): the caller goes on once the promise has settled,
\* that is, once the listen callback or the error handler has run
Awaited(ph) == ph # "call"

\* the probe's server still listening after the listen callback
AfterClose_StillBound(bound) == bound

\* server.close() in the listen callback: the ports the probe's server holds
\* when checkPort resolves
AfterClose(bound) == {}

\* HealthChecker.checkPort: the same probe, reported as a status
HealthCheckPort(ph, p) ==
    [status |-> IF ph = "listening" THEN "healthy" ELSE "warning", port |-> p]

-----------------------------------------------------------------------------
(* getProcessUsingPort and killProcess: the external utilities *)

\* how a spawnSync call can end: the utility ran, it ran and failed for reasons
\* of its own, it could not be spawned (status null), spawnSync threw
SpawnOutcomes == {"ran", "failed", "enoent", "throws"}

NoCommand == [prog |-> "", flag |-> "", pid |-> NoPid]
\* the null getProcessUsingPort returns
NoProc == [pid |-> NoPid, name |-> "", command |-> NoCommand]

\* the rows `netstat -ano` prints for listening sockets, in listing order
NetstatLines ==
    LET rows == [i \in 1..Len(EnvPortSeq) |->
                    [local |-> EnvPortSeq[i], foreign |-> 0, state |-> "LISTENING",
                     pid |-> listener[EnvPortSeq[i]]]]
    IN  SelectSeq(rows, LAMBDA r : r.pid # NoPid)

\* line.includes(`:${p}`): the text ":" + String(p) occurs in the row, that is,
\* p's digits start the digits that follow a colon of the row
LineIncludesPort(r, p) ==
    \/ IsPrefix(ToDigits(p), ToDigits(r.local))
    \/ IsPrefix(ToDigits(p), ToDigits(r.foreign))

\* the rows `lsof -i :p` prints: the sockets on port p of the processes the
\* caller may inspect
LsofLines(p) ==
    IF Holder(p) # NoPid /\ Permitted(Holder(p))
    THEN << [command |-> ProcName(Holder(p)), pid |-> Holder(p), state |-> "LISTEN"] >>
    ELSE << >>

\* Array.prototype.find, given the elements that satisfy the test, in order:
\* the first of them, or none
Find(hits) == IF hits = <<>> THEN <<>> ELSE << Head(hits) >>

\* the netstat row getProcessUsingPort picks on Windows (lines 38-40)
PortLine(p) ==
    Find(SelectSeq(NetstatLines, LAMBDA r : LineIncludesPort(r, p) /\ r.state = "LISTENING"))

\* getProcessUsingPort without its try/catch: a throwing spawnSync reaches the caller
LookupThrows_NoCatch(util, tl) ==
    util = "throws" \/ (platform = "win32" /\ util = "ran" /\ tl = "throws")

\* does getProcessUsingPort throw to its caller: never, the whole body sits in
\* try { } catch (e) { return null } (lines 26, 94-96)
LookupThrows(util, tl) == FALSE

\* getProcessUsingPort returning the holder without looking at status or lines
getProcessUsingPort_NoChecks(p, util, tl) ==
    [pid |-> Holder(p), name |-> ProcName(Holder(p)),
     command |-> [prog |-> "kill", flag |-> "-9", pid |-> Holder(p)]]

\* getProcessUsingPort(p), given how the spawn of the lookup utility (util) and,
\* on Windows, of tasklist (tl) ends
getProcessUsingPort(p, util, tl) ==
    IF util = "throws" THEN NoProc
    ELSE IF platform = "win32"
    THEN IF util # "ran" THEN NoProc
         ELSE LET portLine == PortLine(p)
              IN  IF portLine = <<>> THEN NoProc
                  ELSE LET pid == portLine[1].pid
                           cmd == [prog |-> "taskkill", flag |-> "/F", pid |-> pid]
                       IN  IF tl = "throws" THEN NoProc
                           ELSE IF tl = "ran" /\ pid \in alive
                           THEN [pid |-> pid, name |-> ProcName(pid), command |-> cmd]
                           ELSE [pid |-> pid, name |-> "Unknown", command |-> cmd]
    ELSE LET lines == IF util = "ran" THEN LsofLines(p) ELSE <<>>
             status0 == lines # <<>>      \* lsof exits 1 when it lists nothing
             dataLine == Find(SelectSeq(lines, LAMBDA r : r.state = "LISTEN"))
         IN  IF status0 /\ dataLine # <<>>
             THEN [pid |-> dataLine[1].pid, name |-> dataLine[1].command,
                   command |-> [prog |-> "kill", flag |-> "-9", pid |-> dataLine[1].pid]]
             ELSE NoProc

\* does the termination command take effect: the utility runs, the target is
\* alive and the caller may signal it
KillTakesEffect(command, util) ==
    util = "ran" /\ command.pid \in alive /\ Permitted(command.pid)

\* killProcess without its try/catch
killProcess_NoCatch(pid, command, util) ==
    IF util = "throws"
    THEN [threw |-> TRUE, value |-> FALSE]
    ELSE [threw |-> FALSE, value |-> KillTakesEffect(command, util)]

\* killProcess(pid, command): result.status === 0, and false when spawnSync
\* throws (the catch).  threw tells whether the call throws to its caller
killProcess(pid, command, util) ==
    IF util = "throws"
    THEN [threw |-> FALSE, value |-> FALSE]
    ELSE [threw |-> FALSE, value |-> KillTakesEffect(command, util)]

\* the OS after a process has been killed or has exited: its sockets are closed
ListenerWithout(pid) == [q \in EnvPorts |-> IF listener[q] = pid THEN NoPid ELSE listener[q]]

-----------------------------------------------------------------------------
(* Inputs *)

\* port texts a caller gives with -p / options.port; <<>> is "no port given"
PortTexts ==
    { << >>,
      << "3", "0", "0", "0" >>,
      << "3", "0", "0", "1" >>,
      << "8", "0" >>,
      << "0" >>,
      << "-", "1" >>,
      << "6", "5", "5", "3", "6" >>,
      << "a", "b", "c" >>,
      << "3", "0", "0", "0", ".", "5" >> }

\* the text after "=" of a -p=... command line argument, <<>> when there is none
ArgPortTexts == { << >>, << "3", "0", "0", "1" >> }

\* the ports the health probe is asked about
HealthPorts == EnvPorts \cup {3002}

\* the list of line 193 in ascending order
commonPorts_Sorted == << 3000, 3001, 3002, 4000, 5000, 5173, 7531, 8000, 8080 >>

\* const commonPorts = [...] (line 193)
commonPorts == << 3000, 3001, 3002, 5173, 8000, 8080, 4000, 5000, 7531 >>

-----------------------------------------------------------------------------
(* Initial state *)

\* the service manager after module load: an empty registry, no child
SvcIdle ==
    /\ runningProcesses = << >>
    /\ children = << >>
    /\ startTimers = << >>
    /\ killTimers = {}
    /\ sigLog = << >>
    /\ svcPc = "running"

\* no clean run in progress, on an empty project directory
CleanIdle ==
    /\ fs = {}
    /\ fsBefore = {}
    /\ dry = FALSE
    /\ all = FALSE
    /\ selectedCategories = << >>
    /\ catIdx = 0
    /\ patIdx = 0
    /\ totalCleaned = 0
    /\ cleanPc = "idle"

\* no project type detection made, no package.json
DoctorIdle ==
    /\ pkgJson = "missing"
    /\ pkgDeps = {}
    /\ projectFiles = {}
    /\ detected = ""

\* no Logger constructed
LoggerIdle ==
    /\ loggers = << >>
    /\ console = << >>
    /\ logCalls = << >>

\* no health check made
HealthIdle ==
    /\ memFree = 0
    /\ memResult = << >>
    /\ hcChecks = << >>
    /\ hcOverall = ""
    /\ hcStatusCode = 0
    /\ hcPc = "idle"

\* runDoctor not called
RunDoctorIdle ==
    /\ project = << >>
    /\ failed = FALSE
    /\ drPc = "idle"
    /\ drThrew = FALSE
    /\ exitStatus = -1
    /\ warnings = {}

\* no Inspector constructed
InspectorIdle ==
    /\ metrics = << >>
    /\ recorded = << >>

PortsInit ==
    /\ listener \in [EnvPorts -> Pids \cup {NoPid}]
    /\ alive = Pids
    /\ isRoot \in BOOLEAN
    /\ platform \in {"posix", "win32"}
    /\ envSteps = 0
    /\ selfBound = {}
    /\ op = "none"
    /\ pc = "idle"
    /\ phase = "call"
    /\ specificPort = << >>
    /\ kill = FALSE
    /\ port = 0
    /\ startPort = 0
    /\ endPort = 0
    /\ idx = 0
    /\ proc = NoProc
    /\ results = << >>
    /\ output = << >>
    /\ probeLog = << >>
    /\ lookupLog = << >>
    /\ killLog = << >>

Init == PortsInit /\ SvcIdle /\ CleanIdle /\ DoctorIdle /\ LoggerIdle
        /\ HealthIdle /\ RunDoctorIdle /\ InspectorIdle

Msg(m, p, pid) == [msg |-> m, port |-> p, pid |-> pid]
Say(m) == Append(output, Msg(m, port, NoPid))

-----------------------------------------------------------------------------
(* Other processes *)

\* a live process starts listening on a port nobody holds
EnvBind(p, pid) ==
    /\ envSteps < MaxEnvSteps
    /\ pc \notin {"idle", "finished", "exit1", "rejected"}
    /\ pid \in alive
    /\ listener[p] = NoPid
    /\ p \notin selfBound
    /\ listener' = [listener EXCEPT ![p] = pid]
    /\ envSteps' = envSteps + 1
    /\ UNCHANGED << alive, isRoot, platform, selfBound, op, pc, phase, specificPort,
                    kill, port, endPort, startPort, idx, proc, results, output,
                    probeLog, lookupLog, killLog >>
    /\ UNCHANGED << svcVars, cleanVars, doctorVars, loggerVars,
                    healthVars, runDoctorVars, inspectorVars >>

\* a process exits on its own; the OS closes its sockets
EnvExit(pid) ==
    /\ envSteps < MaxEnvSteps
    /\ pc \notin {"idle", "finished", "exit1", "rejected"}
    /\ pid \in alive
    /\ alive' = alive \ {pid}
    /\ listener' = ListenerWithout(pid)
    /\ envSteps' = envSteps + 1
    /\ UNCHANGED << isRoot, platform, selfBound, op, pc, phase, specificPort,
                    kill, port, endPort, startPort, idx, proc, results, output,
                    probeLog, lookupLog, killLog >>
    /\ UNCHANGED << svcVars, cleanVars, doctorVars, loggerVars,
                    healthVars, runDoctorVars, inspectorVars >>

-----------------------------------------------------------------------------
(* checkPort, first half: createServer and listen *)

ProbePcs == {"probe", "verify", "scan_probe", "sp_probe", "h_probe", "later_probe"}

\* server.listen(port): the bind attempt.  A port outside 0..65535 makes listen
\* throw inside the promise executor, which rejects the promise; nothing in
\* ports.mjs catches it, so the operation ends rejected
Listen ==
    /\ pc \in ProbePcs
    /\ phase = "call"
    /\ probeLog' = IF BindOutcome(port) = "BAD_PORT"
                   THEN probeLog
                   ELSE Append(probeLog, [port |-> port, outcome |-> BindOutcome(port),
                                          holder |-> Holder(port)])
    /\ IF BindOutcome(port) = "BAD_PORT"
       THEN pc' = "rejected" /\ UNCHANGED << phase, selfBound >>
       ELSE IF BindOutcome(port) = "ok"
       THEN /\ phase' = "listening"
            /\ selfBound' = IF port = 0 THEN {} ELSE {port}
            /\ pc' = pc
       ELSE phase' = "errored" /\ UNCHANGED << pc, selfBound >>
    /\ UNCHANGED << envVars, envSteps, op, specificPort, kill, port, endPort, startPort,
                    idx, proc, results, output, lookupLog, killLog >>
    /\ UNCHANGED << svcVars, cleanVars, doctorVars, loggerVars,
                    healthVars, runDoctorVars, inspectorVars >>

-----------------------------------------------------------------------------
(* runPorts *)

\* runPorts(options) with process.argv holding args: option parsing and, for a
\* given port, parseInt and the isNaN check
StartPorts(optPort, optKill, argPort, argKill) ==
    /\ pc = "idle"
    /\ op' = "ports"
    /\ specificPort' = IF optPort # << >> THEN optPort ELSE argPort
    /\ kill' = (optKill \/ argKill)
    /\ IF specificPort' # << >>
       THEN IF ParseInt(specificPort').nan
            THEN /\ output' = Append(output, Msg("invalid port number", 0, NoPid))
                 /\ pc' = "exit1"
                 /\ UNCHANGED << port, idx >>
            ELSE /\ port' = ParseInt(specificPort').val
                 /\ output' = Append(output, Msg("checking", port', NoPid))
                 /\ pc' = "probe"
                 /\ idx' = idx
       ELSE /\ port' = commonPorts[1]
            /\ idx' = 1
            /\ output' = Append(output, Msg("scanning", 0, NoPid))
            /\ pc' = "scan_probe"
    /\ phase' = "call"
    /\ UNCHANGED << envVars, envSteps, selfBound, endPort, startPort, proc, results,
                    probeLog, lookupLog, killLog >>
    /\ UNCHANGED << svcVars, cleanVars, doctorVars, loggerVars,
                    healthVars, runDoctorVars, inspectorVars >>

\* single port: the first checkPort settles (lines 154-159)
PortsProbed ==
    /\ pc = "probe"
    /\ Awaited(phase)
    /\ selfBound' = AfterClose(selfBound)
    /\ phase' = "call"
    /\ IF checkPort(phase, port).free
       THEN output' = Say("available") /\ pc' = "done"
       ELSE output' = Say("in use") /\ pc' = "resolve"
    /\ UNCHANGED << envVars, envSteps, op, specificPort, kill, port, endPort, startPort,
                    idx, proc, results, probeLog, lookupLog, killLog >>
    /\ UNCHANGED << svcVars, cleanVars, doctorVars, loggerVars,
                    healthVars, runDoctorVars, inspectorVars >>

\* AfterResolve without the test of the kill option
AfterResolve_IgnoresKill(process, k) ==
    IF process # NoProc THEN "kill" ELSE "done"

\* AfterResolve with the kill branch outside the if (process) block
AfterResolve_IgnoresNull(process, k) ==
    IF k THEN "kill" ELSE "done"

\* AfterKill trying the termination again after a failure
AfterKill_Retries(success) ==
    IF success THEN "verify" ELSE "kill"

\* AfterKill with the verification outside the if (success) block
AfterKill_AlwaysVerify(success) == "verify"

\* single port: where runPorts goes once the occupant lookup has returned:
\* if (process) { ... if (kill) ... }
AfterResolve(process, k) ==
    IF process # NoProc /\ k THEN "kill" ELSE "done"

\* single port: where runPorts goes once killProcess has returned: if (success)
AfterKill(success) ==
    IF success THEN "verify" ELSE "done"

\* single port: getProcessUsingPort and the branch on kill (lines 161-166, 185-187)
PortsResolve(util, tl) ==
    /\ pc = "resolve"
    /\ lookupLog' = Append(lookupLog, port)
    /\ IF LookupThrows(util, tl)
       THEN pc' = "rejected" /\ UNCHANGED << proc, output >>
       ELSE /\ proc' = getProcessUsingPort(port, util, tl)
            /\ IF proc' # NoProc
               THEN output' = Append(output, Msg("process", port, proc'.pid))
               ELSE output' = Say("could not identify process")
            /\ pc' = AfterResolve(proc', kill)
    /\ UNCHANGED << envVars, envSteps, selfBound, op, phase, specificPort, kill, port,
                    endPort, startPort, idx, results, probeLog, killLog >>
    /\ UNCHANGED << svcVars, cleanVars, doctorVars, loggerVars,
                    healthVars, runDoctorVars, inspectorVars >>

\* single port: killProcess and its report (lines 167-172, 180-183)
PortsKill(util) ==
    /\ pc = "kill"
    /\ killLog' = Append(killLog, [command |-> proc.command, port |-> port,
                                    success |-> killProcess(proc.pid, proc.command, util).value])
    /\ IF KillTakesEffect(proc.command, util)
       THEN /\ alive' = alive \ {proc.command.pid}
            /\ listener' = ListenerWithout(proc.command.pid)
       ELSE UNCHANGED << alive, listener >>
    /\ IF killProcess(proc.pid, proc.command, util).threw
       THEN output' = output /\ pc' = "rejected"
       ELSE /\ output' = IF killProcess(proc.pid, proc.command, util).value
                         THEN Say("killed") ELSE Say("failed to kill")
            /\ pc' = AfterKill(killProcess(proc.pid, proc.command, util).value)
    /\ phase' = "call"
    /\ UNCHANGED << isRoot, platform, envSteps, selfBound, op, specificPort, kill, port,
                    endPort, startPort, idx, proc, results, probeLog, lookupLog >>
    /\ UNCHANGED << svcVars, cleanVars, doctorVars, loggerVars,
                    healthVars, runDoctorVars, inspectorVars >>

\* single port: the verification checkPort settles (lines 174-179)
PortsVerified ==
    /\ pc = "verify"
    /\ Awaited(phase)
    /\ selfBound' = AfterClose(selfBound)
    /\ phase' = "call"
    /\ output' = IF checkPort(phase, port).free
                 THEN Say("now available") ELSE Say("still in use")
    /\ pc' = "done"
    /\ UNCHANGED << envVars, envSteps, op, specificPort, kill, port, endPort, startPort,
                    idx, proc, results, probeLog, lookupLog, killLog >>
    /\ UNCHANGED << svcVars, cleanVars, doctorVars, loggerVars,
                    healthVars, runDoctorVars, inspectorVars >>

\* the report of scan mode (lines 214-236), printed once the loop has ended
ScanReport(res) ==
    [i \in 1..Len(res) |->
        IF res[i].inUse
        THEN IF res[i].process # NoProc
             THEN Msg("used by process", res[i].port, NoPid)
             ELSE Msg("unknown process", res[i].port, NoPid)
        ELSE Msg("available", res[i].port, NoPid)]
    \o << Msg(IF \E i \in 1..Len(res) : res[i].inUse
               THEN "ports are in use" ELSE "all common ports available", 0, NoPid) >>

\* the result pushed for a port in use, without the occupant
InUseResult_DropsProcess(p, process) == [port |-> p, inUse |-> TRUE, process |-> NoProc]

\* results.push({ port, inUse: true, process }) (lines 122-126, 200-204)
InUseResult(p, process) == [port |-> p, inUse |-> TRUE, process |-> process]

\* results.push({ port, inUse: false, process: null }) (lines 128-132, 206-210)
FreeResult(p) == [port |-> p, inUse |-> FALSE, process |-> NoProc]

\* scan mode: one port of commonPorts has its result pushed; the loop goes on
\* to the next port or ends with the report
ScanPush(r) ==
    /\ results' = Append(results, r)
    /\ IF idx < Len(commonPorts)
       THEN /\ idx' = idx + 1
            /\ port' = commonPorts[idx + 1]
            /\ pc' = "scan_probe"
            /\ output' = output
       ELSE /\ output' = output \o ScanReport(results')
            /\ pc' = "done"
            /\ UNCHANGED << idx, port >>

\* scan mode: checkPort of the current port settles (lines 196-198, 205-211)
ScanProbed ==
    /\ pc = "scan_probe"
    /\ Awaited(phase)
    /\ selfBound' = AfterClose(selfBound)
    /\ phase' = "call"
    /\ IF checkPort(phase, port).free
       THEN ScanPush(FreeResult(port))
       ELSE pc' = "scan_resolve" /\ UNCHANGED << results, idx, port, output >>
    /\ UNCHANGED << envVars, envSteps, op, specificPort, kill, endPort, startPort,
                    proc, probeLog, lookupLog, killLog >>
    /\ UNCHANGED << svcVars, cleanVars, doctorVars, loggerVars,
                    healthVars, runDoctorVars, inspectorVars >>

\* scan mode: getProcessUsingPort for a port in use (lines 199-204)
ScanResolve(util, tl) ==
    /\ pc = "scan_resolve"
    /\ lookupLog' = Append(lookupLog, port)
    /\ IF LookupThrows(util, tl)
       THEN pc' = "rejected" /\ UNCHANGED << results, idx, port, output >>
       ELSE ScanPush(InUseResult(port, getProcessUsingPort(port, util, tl)))
    /\ UNCHANGED << envVars, envSteps, selfBound, op, phase, specificPort, kill,
                    endPort, startPort, proc, probeLog, killLog >>
    /\ UNCHANGED << svcVars, cleanVars, doctorVars, loggerVars,
                    healthVars, runDoctorVars, inspectorVars >>

-----------------------------------------------------------------------------
(* scanPorts *)

\* scanPorts(startPort, endPort): the loop starts at startPort; an empty range
\* returns at once
StartScanPorts(a, b) ==
    /\ pc = "idle"
    /\ op' = "scanPorts"
    /\ startPort' = a
    /\ endPort' = b
    /\ port' = a
    /\ results' = << >>
    /\ pc' = IF a <= b THEN "sp_probe" ELSE "done"
    /\ phase' = "call"
    /\ UNCHANGED << envVars, envSteps, selfBound, specificPort, kill, idx, proc, output,
                    probeLog, lookupLog, killLog >>
    /\ UNCHANGED << svcVars, cleanVars, doctorVars, loggerVars,
                    healthVars, runDoctorVars, inspectorVars >>

\* spPush with the loop test port < endPort
spPush_SkipsLast(r) ==
    /\ results' = Append(results, r)
    /\ port' = port + 1
    /\ pc' = IF port + 1 < endPort THEN "sp_probe" ELSE "done"

\* one pass of the loop ends: the result is pushed, port++ and the loop test
spPush(r) ==
    /\ results' = Append(results, r)
    /\ port' = port + 1
    /\ pc' = IF port + 1 <= endPort THEN "sp_probe" ELSE "done"

\* checkPort of the current port settles (lines 119-120, 127-133)
spProbed ==
    /\ pc = "sp_probe"
    /\ Awaited(phase)
    /\ selfBound' = AfterClose(selfBound)
    /\ phase' = "call"
    /\ IF checkPort(phase, port).free
       THEN spPush(FreeResult(port))
       ELSE pc' = "sp_resolve" /\ UNCHANGED << results, port >>
    /\ UNCHANGED << envVars, envSteps, op, specificPort, kill, endPort, startPort, idx,
                    proc, output, probeLog, lookupLog, killLog >>
    /\ UNCHANGED << svcVars, cleanVars, doctorVars, loggerVars,
                    healthVars, runDoctorVars, inspectorVars >>

\* getProcessUsingPort for a port in use (lines 121-126)
spResolve(util, tl) ==
    /\ pc = "sp_resolve"
    /\ lookupLog' = Append(lookupLog, port)
    /\ IF LookupThrows(util, tl)
       THEN pc' = "rejected" /\ UNCHANGED << results, port >>
       ELSE spPush(InUseResult(port, getProcessUsingPort(port, util, tl)))
    /\ UNCHANGED << envVars, envSteps, selfBound, op, phase, specificPort, kill,
                    endPort, startPort, idx, proc, output, probeLog, killLog >>
    /\ UNCHANGED << svcVars, cleanVars, doctorVars, loggerVars,
                    healthVars, runDoctorVars, inspectorVars >>

-----------------------------------------------------------------------------
(* HealthChecker.checkPort, also used as a probe made after runPorts has ended *)

StartHealth(p) ==
    /\ pc = "idle"
    /\ op' = "health"
    /\ port' = p
    /\ pc' = "h_probe"
    /\ phase' = "call"
    /\ UNCHANGED << envVars, envSteps, selfBound, specificPort, kill, endPort, startPort,
                    idx, proc, results, output, probeLog, lookupLog, killLog >>
    /\ UNCHANGED << svcVars, cleanVars, doctorVars, loggerVars,
                    healthVars, runDoctorVars, inspectorVars >>

\* a later, independent probe of the port a single-port run has handled
StartLaterProbe ==
    /\ pc = "done"
    /\ op = "ports"
    /\ specificPort # << >>
    /\ pc' = "later_probe"
    /\ phase' = "call"
    /\ UNCHANGED << envVars, envSteps, selfBound, op, specificPort, kill, port, endPort,
                    startPort, idx, proc, results, output, probeLog, lookupLog, killLog >>
    /\ UNCHANGED << svcVars, cleanVars, doctorVars, loggerVars,
                    healthVars, runDoctorVars, inspectorVars >>

HealthProbed ==
    /\ pc \in {"h_probe", "later_probe"}
    /\ Awaited(phase)
    /\ selfBound' = AfterClose(selfBound)
    /\ phase' = "call"
    /\ output' = Append(output, Msg(HealthCheckPort(phase, port).status, port, NoPid))
    /\ pc' = "finished"
    /\ UNCHANGED << envVars, envSteps, op, specificPort, kill, port, endPort, startPort,
                    idx, proc, results, probeLog, lookupLog, killLog >>
    /\ UNCHANGED << svcVars, cleanVars, doctorVars, loggerVars,
                    healthVars, runDoctorVars, inspectorVars >>

-----------------------------------------------------------------------------
(* Specification *)

Next ==
    \/ \E optPort \in PortTexts, optKill \in BOOLEAN, argPort \in ArgPortTexts,
          argKill \in BOOLEAN : StartPorts(optPort, optKill, argPort, argKill)
    \/ Listen
    \/ PortsProbed
    \/ \E util \in SpawnOutcomes, tl \in SpawnOutcomes : PortsResolve(util, tl)
    \/ \E util \in SpawnOutcomes : PortsKill(util)
    \/ PortsVerified
    \/ ScanProbed
    \/ \E util \in SpawnOutcomes, tl \in SpawnOutcomes : ScanResolve(util, tl)
    \/ \E a \in 0..(MaxRange - 1), b \in 0..(MaxRange - 1) :
          StartScanPorts(ScanBase + a, ScanBase + b)
    \/ spProbed
    \/ \E util \in SpawnOutcomes, tl \in SpawnOutcomes : spResolve(util, tl)
    \/ \E p \in HealthPorts : StartHealth(p)
    \/ StartLaterProbe
    \/ HealthProbed
    \/ \E p \in EnvPorts, pid \in Pids : EnvBind(p, pid)
    \/ \E pid \in Pids : EnvExit(pid)

Spec == Init /\ [][Next]_vars

-----------------------------------------------------------------------------
(* Properties of the port probe *)

Last(seq) == seq[Len(seq)]

\* a checkPort call has made its bind attempt and is about to resolve
ProbeSettling == pc \in ProbePcs /\ phase # "call"

SinglePort == op = "ports" /\ specificPort # << >>

\* C1, as stated: checkPort (ports.mjs and HealthChecker) reports a port free
\* exactly when no other process held a listening socket on it at the moment
\* of the bind attempt
C1_FreeIffUnbound ==
    ProbeSettling =>
        /\ checkPort(phase, port).free <=> (Last(probeLog).holder = NoPid)
        /\ (HealthCheckPort(phase, port).status = "healthy")
               <=> (Last(probeLog).holder = NoPid)

\* C1, amended: checkPort reports a port free exactly when its own bind attempt
\* succeeded; a port another process listens on is always reported not free
\* (free=false / status warning), and an unbound port is reported free whenever
\* the prober is allowed to bind it (port >= 1024, or as root, or on Windows)
C1_FreeIffBindSucceeds ==
    ProbeSettling =>
        LET e == Last(probeLog)
            r == checkPort(phase, port)
            h == HealthCheckPort(phase, port)
        IN  /\ r.port = e.port /\ h.port = e.port
            /\ r.free <=> (e.outcome = "ok")
            /\ (h.status = "healthy") <=> (e.outcome = "ok")
            /\ h.status \in {"healthy", "warning"}
            /\ e.holder # NoPid => ~r.free /\ h.status = "warning"
            /\ (e.holder = NoPid /\ (e.port >= 1024 \/ isRoot \/ platform = "win32")) =>
                   r.free /\ h.status = "healthy"

\* C1 witness: a port held by another process has been probed and reported in
\* use, and later, unbound, probed again and reported free
C1_Witness ==
    /\ pc = "finished"
    /\ Len(probeLog) = 2
    /\ probeLog[1].outcome = "EADDRINUSE" /\ probeLog[1].holder # NoPid
    /\ probeLog[2].outcome = "ok" /\ probeLog[2].holder = NoPid
    /\ Last(output).msg = "healthy"

\* a port text the specification accepts: an integer literal in 1..65535
ValidPortText(s) ==
    /\ s # << >>
    /\ \A i \in 1..Len(s) : IsDigit(s[i])
    /\ DigitsValue(s, 0) >= 1
    /\ DigitsValue(s, 0) <= 65535

\* C2, as stated: a port text that is not an integer in 1..65535 is rejected
\* before any bind attempt or external command, and the run ends with the
\* error; no such value is probed or reported free or occupied
C2_InvalidPortRejected ==
    (SinglePort /\ ~ValidPortText(specificPort)) =>
        /\ probeLog = << >>
        /\ lookupLog = << >>
        /\ killLog = << >>
        /\ pc \in {"probe", "exit1", "rejected"}
        /\ \A i \in 1..Len(output) : output[i].msg \in {"checking", "invalid port number"}

\* C3, as stated: a port whose bind attempt failed for another reason than
\* "address already in use" is never reported as in use and never handed to
\* occupant resolution or termination
C3_OtherBindFailureNotInUse ==
    /\ pc \in {"resolve", "scan_resolve", "sp_resolve", "kill"} =>
           Last(probeLog).outcome = "EADDRINUSE"
    /\ \A i \in 1..Len(lookupLog) :
           \A j \in 1..Len(probeLog) :
               probeLog[j].port = lookupLog[i] => probeLog[j].outcome # "EACCES"

-----------------------------------------------------------------------------
(* Properties of runPorts *)

HasSaid(m) == \E i \in 1..Len(output) : output[i].msg = m /\ output[i].port = port

\* the single-port run has ended (a later independent probe may follow it)
Ended == pc \in {"done", "later_probe", "finished"}

\* C4: when the kill option is not set, no run of the ports command issues a
\* termination command, in single-port mode or in scan mode, and every process
\* that stops being alive meanwhile has exited on its own
C4_NoKillWithoutOption ==
    [][ ~kill' => /\ killLog' = << >>
                  /\ (alive' # alive => envSteps' = envSteps + 1) ]_vars

\* C4 witness: a single-port run without the kill option has found the port in
\* use, identified the occupant and ended, and the occupant is still alive
C4_Witness ==
    /\ SinglePort /\ ~kill /\ pc = "done"
    /\ proc # NoProc /\ proc.pid \in alive /\ Permitted(proc.pid)
    /\ Holder(port) = proc.pid

\* C5: with the kill option set, when the first probe of the port finds it free
\* the run ends at once: no occupant lookup, no termination command, no
\* re-probe, and the port is reported available
C5_FreeShortCircuits ==
    (SinglePort /\ kill /\ probeLog # << >> /\ probeLog[1].outcome = "ok"
        /\ ~(pc = "probe")) =>
        /\ lookupLog = << >>
        /\ killLog = << >>
        /\ HasSaid("available")
        /\ ~HasSaid("in use")
        /\ pc = "done" => Len(probeLog) = 1 /\ Last(output).msg = "available"

\* C5 witness: a run with the kill option has ended on a port that another
\* process could have held but that was free
C5_Witness ==
    /\ SinglePort /\ kill /\ pc = "done"
    /\ port \in EnvPorts
    /\ probeLog[1].outcome = "ok"

\* C6: with the kill option set, when the port is in use and the occupant
\* lookup returns nothing, the port is reported as used by an unidentified
\* process and no termination command is issued
C6_UnidentifiedNeverKilled ==
    (SinglePort /\ kill /\ lookupLog # << >> /\ proc = NoProc) =>
        /\ killLog = << >>
        /\ Ended
        /\ HasSaid("in use")
        /\ HasSaid("could not identify process")

\* C6 witness: a run with the kill option on a port held by a live process
\* has ended without identifying it
C6_Witness ==
    /\ SinglePort /\ kill /\ pc = "done"
    /\ lookupLog # << >> /\ proc = NoProc
    /\ Holder(port) # NoPid

C8_KilledListenerFreesPort ==
    (SinglePort /\ kill /\ envSteps = 0 /\ killLog # << >> /\ killLog[1].success
        /\ probeLog[1].holder # NoPid /\ killLog[1].command.pid = probeLog[1].holder) =>
        /\ HasSaid("killed")
        /\ Len(probeLog) >= 2 => probeLog[2].outcome = "ok"
        /\ Ended => HasSaid("now available")
        /\ pc = "finished" => Last(output).msg = "healthy" /\ probeLog[3].outcome = "ok"

\* C9: a termination command that fails (non-zero exit, utility missing, spawn
\* throwing) makes killProcess return false; the failure is reported for the
\* port and the run ends normally, nothing is thrown to the caller of runPorts
C9_KillFailureIsAValue ==
    (SinglePort /\ killLog # << >> /\ ~killLog[1].success) =>
        /\ Ended
        /\ killLog[1].port = port
        /\ HasSaid("failed to kill")
        /\ ~HasSaid("killed")

\* C9 witness: the kill of an occupant the caller may not signal has failed
\* and the run has ended
C9_Witness ==
    /\ SinglePort /\ pc = "done"
    /\ killLog # << >> /\ ~killLog[1].success
    /\ killLog[1].command.pid \in alive
    /\ Last(output).msg = "failed to kill"

-----------------------------------------------------------------------------
(* Properties of scanPorts *)

\* C10: a scan of [startPort, endPort] with startPort <= endPort (ports the
\* prober may bind) returns endPort - startPort + 1 results, one per port of
\* the range in ascending order, each carrying the state found for its own
\* port: in use exactly when a process held it when it was probed
C10_ScanCoversRange ==
    (op = "scanPorts" /\ pc = "done" /\ startPort <= endPort) =>
        /\ Len(results) = endPort - startPort + 1
        /\ Len(probeLog) = Len(results)
        /\ \A i \in 1..Len(results) :
               /\ results[i].port = startPort + i - 1
               /\ probeLog[i].port = results[i].port
               /\ results[i].inUse <=> (probeLog[i].outcome # "ok")
               /\ results[i].inUse <=> (probeLog[i].holder # NoPid)

\* C10 witness: the scan of [3000, 3002] with only 3001 held has returned
C10_Witness ==
    /\ op = "scanPorts" /\ pc = "done"
    /\ startPort = ScanBase /\ endPort = ScanBase + 2
    /\ Len(results) = 3
    /\ ~results[1].inUse /\ results[2].inUse /\ ~results[3].inUse

-----------------------------------------------------------------------------
(* Properties of the scans and of the occupant lookup *)

ScanMode == op = "ports" /\ specificPort = << >>

ResolvePcs == {"resolve", "scan_resolve", "sp_resolve"}

\* C11: in a scan over several ports, a failure while handling one port (a bind
\* error, a lookup utility that is missing, fails or throws, output without the
\* expected line) never halts the scan: the scan is never rejected, every port
\* handled so far has its result, and when the scan has ended every port of the
\* list or range has been probed and has a result
C11_ScanNeverHalts ==
    /\ ScanMode =>
           /\ pc \in {"scan_probe", "scan_resolve", "done"}
           /\ pc \in {"scan_probe", "scan_resolve"} => Len(results) = idx - 1
           /\ pc = "done" => /\ Len(results) = Len(commonPorts)
                              /\ Len(probeLog) = Len(commonPorts)
    /\ op = "scanPorts" =>
           /\ pc \in {"sp_probe", "sp_resolve", "done"}
           /\ pc \in {"sp_probe", "sp_resolve"} => Len(results) = port - startPort
           /\ (pc = "done" /\ startPort <= endPort) =>
                  /\ Len(results) = endPort - startPort + 1
                  /\ Len(probeLog) = endPort - startPort + 1

\* C11 witness: a scan has ended although the lookup for its first port, held
\* by a live process, gave nothing, and a later port was found in use too
C11_Witness ==
    /\ ScanMode /\ pc = "done"
    /\ results[1].inUse /\ results[1].process = NoProc /\ Holder(3000) # NoPid
    /\ results[2].inUse /\ results[2].process # NoProc

\* C12: when no port is specified, the ports command probes exactly the list
\* 3000, 3001, 3002, 5173, 8000, 8080, 4000, 5000, 7531: each port once, in
\* that order, no other port, and the result list has exactly these 9 entries
C12_CommonPortsExactly ==
    ScanMode =>
        LET fixed == << 3000, 3001, 3002, 5173, 8000, 8080, 4000, 5000, 7531 >>
        IN  /\ Len(probeLog) <= 9
            /\ \A i \in 1..Len(probeLog) : probeLog[i].port = fixed[i]
            /\ \A i \in 1..Len(results) : results[i].port = fixed[i]
            /\ \A i \in 1..Len(lookupLog) : \E j \in 1..9 : lookupLog[i] = fixed[j]
            /\ pc = "done" => Len(results) = 9 /\ Len(probeLog) = 9

\* C12 witness: a scan without a port has ended with 5173 and 7531 reported
C12_Witness ==
    /\ ScanMode /\ pc = "done"
    /\ results[4].port = 5173 /\ results[9].port = 7531
    /\ \E i \in 1..Len(output) : output[i].port = 7531 /\ output[i].msg = "available"

\* on this platform, does the listing of the lookup utility hold a listening
\* line for port p
ListeningLineFound(p) ==
    IF platform = "win32"
    THEN \E i \in 1..Len(NetstatLines) :
             LineIncludesPort(NetstatLines[i], p) /\ NetstatLines[i].state = "LISTENING"
    ELSE \E i \in 1..Len(LsofLines(p)) : LsofLines(p)[i].state = "LISTEN"

\* C13: getProcessUsingPort never fails to its caller; it returns null when the
\* utility cannot be run, throws, exits non-zero or prints no listening line,
\* and returns a pid and a name only when the utility exited with status 0 and
\* a listening line was found
C13_LookupNeverFails ==
    /\ pc # "rejected" \/ lookupLog = << >>
    /\ \A p \in EnvPorts \cup {3002} : \A util \in SpawnOutcomes, tl \in SpawnOutcomes :
           LET r == getProcessUsingPort(p, util, tl)
           IN  /\ ~LookupThrows(util, tl)
               /\ (util # "ran" \/ ~ListeningLineFound(p)) => r = NoProc
               /\ r # NoProc => r.pid # NoPid /\ r.name # "" /\ r.command.pid = r.pid

\* C13 witness: in one scan a lookup has returned an occupant and another, for
\* a port a live process holds, has returned null
C13_Witness ==
    /\ op = "scanPorts" /\ pc = "done" /\ Len(results) >= 2
    /\ results[1].inUse /\ results[1].process # NoProc
    /\ results[2].inUse /\ results[2].process = NoProc /\ Holder(results[2].port) # NoPid

\* C14, as stated: a run with the kill option and no port kills the processes
\* using the scanned ports: once it has ended, a termination command has been
\* issued against every occupant that was resolved and that the caller may kill
C14_ScanKillsOccupants ==
    (ScanMode /\ kill /\ pc = "done") =>
        \A i \in 1..Len(results) :
            (results[i].inUse /\ results[i].process # NoProc
                /\ Permitted(results[i].process.pid)) =>
                \E k \in 1..Len(killLog) :
                    killLog[k].command.pid = results[i].process.pid

\* C20, as stated: the line the Windows lookup picks from the netstat listing
\* is a LISTENING line whose local port is the requested port
C20_WindowsLineIsForPort ==
    (platform = "win32" /\ pc \in ResolvePcs /\ PortLine(port) # << >>) =>
        /\ PortLine(port)[1].local = port
        /\ PortLine(port)[1].state = "LISTENING"

-----------------------------------------------------------------------------
(* The service manager (services.mjs) *)

\* the number of children ever spawned in one run
MaxChildren == 2

\* the number of process.kill calls made before the tool is told to exit
MaxSignals == 3

\* the services of SERVICES that are started and stopped
ServiceNames == {"dev", "test"}

\* the Map runningProcesses as the list of its entries [name, pid] in insertion order
MapHas(m, n) == \E i \in 1..Len(m) : m[i].name = n
MapGet(m, n) == m[CHOOSE i \in 1..Len(m) : m[i].name = n].pid
MapSet(m, n, pid) ==
    IF MapHas(m, n)
    THEN [i \in 1..Len(m) |-> IF m[i].name = n THEN [name |-> n, pid |-> pid] ELSE m[i]]
    ELSE Append(m, [name |-> n, pid |-> pid])
MapDelete(m, n) == SelectSeq(m, LAMBDA e : e.name # n)

\* an iteration over the keys that misses the last entry
MapKeys_SkipsLast(m) == [i \in 1..(Len(m) - 1) |-> m[i].name]

\* runningProcesses.keys(): the names in insertion order
MapKeys(m) == [i \in 1..Len(m) |-> m[i].name]

\* the pids of the children that have exited and whose 'exit' event is still to come
Zombies == {c \in 1..Len(children) : children[c].state = "zombie"}

\* process.kill(pid, signal) throws ESRCH: the process is gone, or it has exited
\* and the platform no longer accepts signals for it (esrch)
KillThrows(pid, esrch) ==
    \/ children[pid].state = "gone"
    \/ children[pid].state = "zombie" /\ pid \in esrch

\* isProcessRunning(pid): process.kill(pid, 0) does not throw
isProcessRunning(pid, esrch) == ~KillThrows(pid, esrch)

\* stopService(serviceName) applied to st = [rp, timers, log, ret]: the registry,
\* the pending kill timers, the signal log, and the value returned
stopService(st, serviceName, esrch) ==
    IF ~MapHas(st.rp, serviceName)
    THEN [st EXCEPT !.ret = FALSE]
    ELSE LET pid == MapGet(st.rp, serviceName)
         IN  IF KillThrows(pid, esrch)
             THEN [st EXCEPT !.log = Append(st.log, [pid |-> pid, sig |-> "SIGTERM",
                                                     ok |-> FALSE]),
                             !.ret = FALSE]
             ELSE [rp |-> MapDelete(st.rp, serviceName),
                   timers |-> st.timers \cup {pid},
                   log |-> Append(st.log, [pid |-> pid, sig |-> "SIGTERM", ok |-> TRUE]),
                   ret |-> TRUE]

\* for (const serviceName of runningProcesses.keys()) stopService(serviceName)
RECURSIVE StopEach(_, _, _)
StopEach(st, keys, esrch) ==
    IF keys = << >> THEN st
    ELSE StopEach(stopService(st, Head(keys), esrch), Tail(keys), esrch)

SvcState == [rp |-> runningProcesses, timers |-> killTimers, log |-> sigLog, ret |-> FALSE]

SetSvcState(st) ==
    /\ runningProcesses' = st.rp
    /\ killTimers' = st.timers
    /\ sigLog' = st.log

\* startService(serviceName): spawn a child and register it under the name
startService(serviceName) ==
    /\ children' = Append(children, [name |-> serviceName, state |-> "alive"])
    /\ runningProcesses' = MapSet(runningProcesses, serviceName, Len(children) + 1)

SvcStart(serviceName) ==
    /\ svcPc = "running"
    /\ Len(children) + Len(startTimers) < MaxChildren
    /\ startService(serviceName)
    /\ UNCHANGED << startTimers, killTimers, sigLog, svcPc >>
    /\ UNCHANGED << portsVars, cleanVars, doctorVars, loggerVars,
                    healthVars, runDoctorVars, inspectorVars >>

SvcStop(serviceName, esrch) ==
    /\ svcPc = "running"
    /\ Len(sigLog) < MaxSignals
    /\ SetSvcState(stopService(SvcState, serviceName, esrch))
    /\ UNCHANGED << children, startTimers, svcPc >>
    /\ UNCHANGED << portsVars, cleanVars, doctorVars, loggerVars,
                    healthVars, runDoctorVars, inspectorVars >>

\* restartService: stopService now, startService from a timer one second later
SvcRestart(serviceName, esrch) ==
    /\ svcPc = "running"
    /\ Len(children) + Len(startTimers) < MaxChildren
    /\ Len(sigLog) < MaxSignals
    /\ SetSvcState(stopService(SvcState, serviceName, esrch))
    /\ startTimers' = Append(startTimers, serviceName)
    /\ UNCHANGED << children, svcPc >>
    /\ UNCHANGED << portsVars, cleanVars, doctorVars, loggerVars,
                    healthVars, runDoctorVars, inspectorVars >>

StartTimerFires ==
    /\ svcPc = "running"
    /\ startTimers # << >>
    /\ startService(Head(startTimers))
    /\ startTimers' = Tail(startTimers)
    /\ UNCHANGED << killTimers, sigLog, svcPc >>
    /\ UNCHANGED << portsVars, cleanVars, doctorVars, loggerVars,
                    healthVars, runDoctorVars, inspectorVars >>

\* the timer of stopService, five seconds after the SIGTERM
KillTimerFires(pid, esrch) ==
    /\ svcPc = "running"
    /\ pid \in killTimers
    /\ Len(sigLog) < MaxSignals
    /\ killTimers' = killTimers \ {pid}
    /\ sigLog' = IF isProcessRunning(pid, esrch)
                 THEN Append(sigLog, [pid |-> pid, sig |-> "SIGKILL", ok |-> TRUE])
                 ELSE sigLog
    /\ UNCHANGED << runningProcesses, children, startTimers, svcPc >>
    /\ UNCHANGED << portsVars, cleanVars, doctorVars, loggerVars,
                    healthVars, runDoctorVars, inspectorVars >>

\* a child ends, by itself or because of a signal
ChildExits(pid) ==
    /\ pid \in 1..Len(children)
    /\ children[pid].state = "alive"
    /\ children' = [children EXCEPT ![pid].state = "zombie"]
    /\ UNCHANGED << runningProcesses, startTimers, killTimers, sigLog, svcPc >>
    /\ UNCHANGED << portsVars, cleanVars, doctorVars, loggerVars,
                    healthVars, runDoctorVars, inspectorVars >>

\* child.on('exit'): the handler deletes the entry of the child's service name
ExitEvent(pid) ==
    /\ svcPc = "running"
    /\ pid \in Zombies
    /\ children' = [children EXCEPT ![pid].state = "gone"]
    /\ runningProcesses' = MapDelete(runningProcesses, children[pid].name)
    /\ UNCHANGED << startTimers, killTimers, sigLog, svcPc >>
    /\ UNCHANGED << portsVars, cleanVars, doctorVars, loggerVars,
                    healthVars, runDoctorVars, inspectorVars >>

\* interactive 'stop-all'
StopAll(esrch) ==
    /\ svcPc = "running"
    /\ runningProcesses # << >>
    /\ Len(sigLog) + Len(runningProcesses) <= MaxSignals
    /\ SetSvcState(StopEach(SvcState, MapKeys(runningProcesses), esrch))
    /\ UNCHANGED << children, startTimers, svcPc >>
    /\ UNCHANGED << portsVars, cleanVars, doctorVars, loggerVars,
                    healthVars, runDoctorVars, inspectorVars >>

\* stop every registered service, then process.exit(0)
StopAllAndExit(esrch) ==
    /\ svcPc = "running"
    /\ SetSvcState(StopEach(SvcState, MapKeys(runningProcesses), esrch))
    /\ svcPc' = "exited"
    /\ UNCHANGED << children, startTimers >>
    /\ UNCHANGED << portsVars, cleanVars, doctorVars, loggerVars,
                    healthVars, runDoctorVars, inspectorVars >>

\* process.on('SIGINT')
Sigint(esrch) == StopAllAndExit(esrch)

\* process.on('SIGTERM')
Sigterm(esrch) == StopAllAndExit(esrch)

\* interactive 'exit'
ExitCmd(esrch) == StopAllAndExit(esrch)

\* the ports tool at rest, for the specifications of the other commands
PortsIdle ==
    /\ listener = [p \in EnvPorts |-> NoPid]
    /\ alive = Pids
    /\ isRoot = FALSE
    /\ platform = "posix"
    /\ envSteps = 0
    /\ selfBound = {}
    /\ op = "none"
    /\ pc = "idle"
    /\ phase = "call"
    /\ specificPort = << >>
    /\ kill = FALSE
    /\ port = 0
    /\ startPort = 0
    /\ endPort = 0
    /\ idx = 0
    /\ proc = NoProc
    /\ results = << >>
    /\ output = << >>
    /\ probeLog = << >>
    /\ lookupLog = << >>
    /\ killLog = << >>

ServicesInit == PortsIdle /\ SvcIdle /\ CleanIdle /\ DoctorIdle /\ LoggerIdle
        /\ HealthIdle /\ RunDoctorIdle /\ InspectorIdle

ServicesNext ==
    \/ \E n \in ServiceNames : SvcStart(n)
    \/ \E n \in ServiceNames, esrch \in SUBSET Zombies : SvcStop(n, esrch)
    \/ \E n \in ServiceNames, esrch \in SUBSET Zombies : SvcRestart(n, esrch)
    \/ StartTimerFires
    \/ \E pid \in killTimers, esrch \in SUBSET Zombies : KillTimerFires(pid, esrch)
    \/ \E pid \in 1..Len(children) : ChildExits(pid)
    \/ \E pid \in Zombies : ExitEvent(pid)
    \/ \E esrch \in SUBSET Zombies : StopAll(esrch)
    \/ \E esrch \in SUBSET Zombies : Sigint(esrch)
    \/ \E esrch \in SUBSET Zombies : Sigterm(esrch)
    \/ \E esrch \in SUBSET Zombies : ExitCmd(esrch)

ServicesSpec == ServicesInit /\ [][ServicesNext]_vars

\* C15: on SIGINT, for every service present in runningProcesses at the time
\* of the signal, process.kill(pid, 'SIGTERM') is called for its pid by the
\* handler, and the tool has exited only after these calls
C15_SigintStopsEveryEntry ==
    [][(\E esrch \in SUBSET Zombies : Sigint(esrch)) =>
          /\ svcPc' = "exited"
          /\ \A i \in 1..Len(runningProcesses) :
                 \E k \in (Len(sigLog) + 1)..Len(sigLog') :
                     /\ sigLog'[k].pid = runningProcesses[i].pid
                     /\ sigLog'[k].sig = "SIGTERM"]_vars

\* C15 witness: the tool has exited after a SIGTERM to each of two children,
\* one of them already dead, so that its entry is still in the registry
C15_Witness ==
    /\ svcPc = "exited"
    /\ Len(sigLog) = 2
    /\ sigLog[1].sig = "SIGTERM" /\ sigLog[2].sig = "SIGTERM"
    /\ sigLog[1].pid # sigLog[2].pid
    /\ ~sigLog[1].ok /\ sigLog[2].ok
    /\ Len(runningProcesses) = 1

-----------------------------------------------------------------------------
(* The clean command (clean.mjs) *)

\* a path is the sequence of its components; a component is a name split into
\* stem and extension, so that '*.log' can be matched
N(stem, ext) == [stem |-> stem, ext |-> ext]
D(name) == N(name, "")

\* the paths that may exist under the project directory
AllPaths ==
    { << D("dist") >>, << D("dist"), N("app", ".js") >>,
      << N("debug", ".log") >>, << N("", ".eslintcache") >>,
      << D("node_modules") >>, << D("node_modules"), D(".cache") >>,
      << N("index", ".js") >> }

\* stats.isDirectory()
DirPaths == { << D("dist") >>, << D("node_modules") >>, << D("node_modules"), D(".cache") >> }
IsDirectory(path) == path \in DirPaths

IsUnder(path, root) ==
    Len(path) >= Len(root) /\ SubSeq(path, 1, Len(root)) = root

\* the file systems: a path exists only inside an existing directory
FileSystems ==
    {f \in SUBSET AllPaths :
        \A path \in f : Len(path) > 1 => SubSeq(path, 1, Len(path) - 1) \in f}

\* the glob patterns: 'root/**', '*ext', 'stem.ext*' and a literal name
Tree(root) == [kind |-> "tree", root |-> root, name |-> N("", "")]
AnyExt(ext) == [kind |-> "ext", root |-> << >>, name |-> N("", ext)]
Prefix(stem, ext) == [kind |-> "prefix", root |-> << >>, name |-> N(stem, ext)]
Literal(stem, ext) == [kind |-> "literal", root |-> << >>, name |-> N(stem, ext)]

CLEAN_PATTERNS ==
    [build |-> << Tree(<< D("dist") >>), Tree(<< D("build") >>), Tree(<< D(".next") >>),
                  Tree(<< D(".nuxt") >>), Tree(<< D(".output") >>), Tree(<< D("out") >>),
                  Tree(<< D("public"), D("build") >>) >>,
     cache |-> << Tree(<< D(".cache") >>), Tree(<< D("node_modules"), D(".cache") >>),
                  Tree(<< D(".parcel-cache") >>), Tree(<< D(".vite") >>),
                  Tree(<< D(".turbo") >>), Literal("", ".eslintcache"),
                  Literal("", ".stylelintcache") >>,
     logs |-> << AnyExt(".log"), Tree(<< D("logs") >>), Prefix("npm-debug", ".log"),
                 Prefix("yarn-debug", ".log"), Prefix("yarn-error", ".log"),
                 Prefix("pnpm-debug", ".log") >>,
     temp |-> << Tree(<< D(".tmp") >>), Tree(<< D("tmp") >>), AnyExt(".tmp"),
                 AnyExt(".temp"), Literal("", ".DS_Store"), Literal("Thumbs", ".db") >>,
     coverage |-> << Tree(<< D("coverage") >>), Tree(<< D(".nyc_output") >>),
                     Literal("lcov", ".info") >>,
     typescript |-> << AnyExt(".tsbuildinfo"), Literal("", ".tsbuildinfo") >>]

\* Object.keys(CLEAN_PATTERNS)
CategoryKeys == << "build", "cache", "logs", "temp", "coverage", "typescript" >>

\* the categories named on the command line
CategoryArgs == { << >>, << "logs" >>, << "build", "temp" >> }

\* does the glob pattern match the path ('*' does not match a leading dot)
Matches(pat, path) ==
    CASE pat.kind = "tree" -> IsUnder(path, pat.root)
      [] pat.kind = "ext" ->
            Len(path) = 1 /\ path[1].ext = pat.name.ext /\ path[1].stem # ""
      [] pat.kind = "prefix" ->
            Len(path) = 1 /\ path[1].stem = pat.name.stem /\ path[1].ext = pat.name.ext
      [] OTHER -> Len(path) = 1 /\ path[1] = pat.name

\* ignore: ['node_modules/**', '.git/**']
Ignored(path) == path[1] \in {D("node_modules"), D(".git")}

\* the set of paths globSync(pattern, { ignore }) returns
globSync(pat, fsys) == {path \in fsys : Matches(pat, path) /\ ~Ignored(path)}

\* the orders in which a set of paths can be listed
Orders(S) ==
    {f \in [1..Cardinality(S) -> S] : \A i, j \in 1..Cardinality(S) : f[i] = f[j] => i = j}

\* fs.rmSync(path, { recursive: true, force: true }) / fs.unlinkSync(path)
Remove(fsys, path) == {q \in fsys : ~IsUnder(q, path)}

\* cleanPattern removing also in a dry run
RECURSIVE cleanPattern_IgnoresDry(_, _, _)
cleanPattern_IgnoresDry(files, isDry, fsys) ==
    IF files = << >> THEN [cleaned |-> 0, fs |-> fsys]
    ELSE IF Head(files) \notin fsys
    THEN cleanPattern_IgnoresDry(Tail(files), isDry, fsys)
    ELSE LET rest == cleanPattern_IgnoresDry(Tail(files), isDry, Remove(fsys, Head(files)))
         IN  [rest EXCEPT !.cleaned = @ + 1]

\* the loop of cleanPattern over the files globSync listed: the number of
\* items counted and the file system it leaves
RECURSIVE cleanPattern(_, _, _)
cleanPattern(files, isDry, fsys) ==
    IF files = << >> THEN [cleaned |-> 0, fs |-> fsys]
    ELSE IF Head(files) \notin fsys
    THEN \* statSync throws ENOENT: warned, not counted
         cleanPattern(Tail(files), isDry, fsys)
    ELSE LET after == IF isDry THEN fsys ELSE Remove(fsys, Head(files))
             rest == cleanPattern(Tail(files), isDry, after)
         IN  [rest EXCEPT !.cleaned = @ + 1]

\* runClean up to the start of the loop over the categories
StartClean(optDry, optAll, categories) ==
    /\ cleanPc = "idle"
    /\ dry' = optDry
    /\ all' = optAll
    /\ selectedCategories' =
          (IF categories # << >> THEN categories ELSE << "build", "cache" >>)
             \o (IF optAll THEN CategoryKeys ELSE << >>)
    /\ catIdx' = 1
    /\ patIdx' = 1
    /\ totalCleaned' = 0
    /\ cleanPc' = "patterns"
    /\ UNCHANGED << fs, fsBefore >>
    /\ UNCHANGED << portsVars, svcVars, doctorVars, loggerVars,
                    healthVars, runDoctorVars, inspectorVars >>

\* one pass of the inner loop: cleanPattern on the current pattern
CleanOnePattern ==
    /\ cleanPc = "patterns"
    /\ LET pats == CLEAN_PATTERNS[selectedCategories[catIdx]]
       IN  /\ \E files \in Orders(globSync(pats[patIdx], fs)) :
                 LET r == cleanPattern(files, dry, fs)
                 IN  /\ fs' = r.fs
                     /\ totalCleaned' = totalCleaned + r.cleaned
           /\ IF patIdx < Len(pats)
              THEN patIdx' = patIdx + 1 /\ UNCHANGED << catIdx, cleanPc >>
              ELSE /\ patIdx' = 1
                   /\ catIdx' = catIdx + 1
                   /\ cleanPc' = IF catIdx < Len(selectedCategories)
                                 THEN "patterns" ELSE "node_modules"
    /\ UNCHANGED << fsBefore, dry, all, selectedCategories >>
    /\ UNCHANGED << portsVars, svcVars, doctorVars, loggerVars,
                    healthVars, runDoctorVars, inspectorVars >>

\* the special handling of node_modules and the report
CleanNodeModules ==
    /\ cleanPc = "node_modules"
    /\ IF all /\ ~dry /\ << D("node_modules") >> \in fs
       THEN /\ fs' = Remove(fs, << D("node_modules") >>)
            /\ totalCleaned' = totalCleaned + 1
       ELSE UNCHANGED << fs, totalCleaned >>
    /\ cleanPc' = "done"
    /\ UNCHANGED << fsBefore, dry, all, selectedCategories, catIdx, patIdx >>
    /\ UNCHANGED << portsVars, svcVars, doctorVars, loggerVars,
                    healthVars, runDoctorVars, inspectorVars >>

CleanInit ==
    /\ PortsIdle /\ SvcIdle /\ DoctorIdle /\ LoggerIdle
        /\ HealthIdle /\ RunDoctorIdle /\ InspectorIdle
    /\ fs \in FileSystems
    /\ fsBefore = fs
    /\ dry = FALSE
    /\ all = FALSE
    /\ selectedCategories = << >>
    /\ catIdx = 0
    /\ patIdx = 0
    /\ totalCleaned = 0
    /\ cleanPc = "idle"

CleanNext ==
    \/ \E optDry \in BOOLEAN, optAll \in BOOLEAN, categories \in CategoryArgs :
          StartClean(optDry, optAll, categories)
    \/ CleanOnePattern
    \/ CleanNodeModules

CleanSpec == CleanInit /\ [][CleanNext]_vars

\* C16: no step of a dry run of clean changes the set of existing paths, so
\* the file system after the run is the one before it, node_modules included
\* when --all is given too
C16_DryRunRemovesNothing ==
    [][(dry \/ dry') => fs' = fs]_vars

\* C16 witness: a dry run with --all has ended, it counted items to clean,
\* and dist, its file and node_modules are still there
C16_Witness ==
    /\ cleanPc = "done" /\ dry /\ all
    /\ totalCleaned >= 2
    /\ << D("dist"), N("app", ".js") >> \in fs
    /\ << D("node_modules"), D(".cache") >> \in fs

-----------------------------------------------------------------------------
(* The doctor's project type detection (doctor.mjs) *)

\* the number of dependencies declared in package.json
MaxDeps == 2

\* the number of configuration files present in the project
MaxFiles == 1

\* PROJECT_TYPES, in the order of Object.entries
PROJECT_TYPES ==
    << [type |-> "react",   files |-> {"package.json"}, deps |-> {"react"}],
       [type |-> "vue",     files |-> {"package.json"}, deps |-> {"vue"}],
       [type |-> "next",    files |-> {"next.config.js", "next.config.mjs"},
                            deps |-> {"next"}],
       [type |-> "express", files |-> {"package.json"}, deps |-> {"express"}],
       [type |-> "fastify", files |-> {"package.json"}, deps |-> {"fastify"}],
       [type |-> "nest",    files |-> {"nest-cli.json"}, deps |-> {"@nestjs/core"}],
       [type |-> "svelte",  files |-> {"svelte.config.js"}, deps |-> {"svelte"}],
       [type |-> "nuxt",    files |-> {"nuxt.config.js", "nuxt.config.ts"},
                            deps |-> {"nuxt"}],
       [type |-> "vite",    files |-> {"vite.config.js", "vite.config.ts"},
                            deps |-> {"vite"}] >>

\* the dependencies PROJECT_TYPES lists
FrameworkDeps == UNION {PROJECT_TYPES[i].deps : i \in 1..Len(PROJECT_TYPES)}

\* the dependency names a package.json may declare
DepNames == FrameworkDeps \cup {"lodash"}

\* the configuration files PROJECT_TYPES lists, package.json apart
ConfigFiles == UNION {PROJECT_TYPES[i].files : i \in 1..Len(PROJECT_TYPES)} \ {"package.json"}

\* fs.existsSync(path.join(process.cwd(), file)) once package.json was read
ExistsSync(file, files) == file = "package.json" \/ file \in files

\* the for loop of detectProjectType from entry i on
RECURSIVE DetectFrom(_, _, _)
DetectFrom(i, deps, files) ==
    IF i > Len(PROJECT_TYPES) THEN "unknown"
    ELSE IF PROJECT_TYPES[i].deps \cap deps # {} THEN PROJECT_TYPES[i].type
    ELSE IF \E file \in PROJECT_TYPES[i].files : ExistsSync(file, files)
    THEN PROJECT_TYPES[i].type
    ELSE DetectFrom(i + 1, deps, files)

\* detectProjectType()
detectProjectType(pkg, deps, files) ==
    IF pkg = "missing" THEN "unknown"
    ELSE IF pkg = "invalid" THEN "unknown"
    ELSE DetectFrom(1, deps, files)

Detect ==
    /\ detected = ""
    /\ detected' = detectProjectType(pkgJson, pkgDeps, projectFiles)
    /\ UNCHANGED << pkgJson, pkgDeps, projectFiles >>
    /\ UNCHANGED << portsVars, svcVars, cleanVars, loggerVars,
                    healthVars, runDoctorVars, inspectorVars >>

DoctorInit ==
    /\ PortsIdle /\ SvcIdle /\ CleanIdle /\ LoggerIdle
        /\ HealthIdle /\ RunDoctorIdle /\ InspectorIdle
    /\ pkgJson \in {"missing", "invalid", "valid"}
    /\ pkgDeps \in {d \in SUBSET DepNames : Cardinality(d) <= MaxDeps}
    /\ pkgJson # "valid" => pkgDeps = {}
    /\ projectFiles \in {f \in SUBSET ConfigFiles : Cardinality(f) <= MaxFiles}
    /\ detected = ""

DoctorNext == Detect

DoctorSpec == DoctorInit /\ [][DoctorNext]_vars

\* C17, as stated: with a readable package.json, a project whose only
\* framework dependency is that of a supported type is detected as that type,
\* and a project with none of the listed dependencies and none of the listed
\* configuration files is detected as 'unknown'
C17_DetectsDeclaredFramework ==
    (detected # "" /\ pkgJson = "valid") =>
        /\ \A i \in 1..Len(PROJECT_TYPES) :
               pkgDeps \cap FrameworkDeps = PROJECT_TYPES[i].deps =>
                   detected = PROJECT_TYPES[i].type
        /\ (pkgDeps \cap FrameworkDeps = {} /\ projectFiles = {}) => detected = "unknown"

-----------------------------------------------------------------------------
(* The logger (logger.mjs) *)

\* the number of Logger objects in one run
MaxLoggers == 2

\* the number of log() calls in one run
MaxLogCalls == 2

\* static levels = { debug: 0, info: 1, warn: 2, error: 3 }
levels == [debug |-> 0, info |-> 1, warn |-> 2, error |-> 3]

LevelNames == DOMAIN levels

\* an object with no property
EmptyObject == [k \in {} |-> ""]

\* the context objects given to the constructor and to child()
Contexts ==
    { EmptyObject,
      [k \in {"user"} |-> "a"],
      [k \in {"user", "env"} |-> IF k = "user" THEN "b" ELSE "x"] }

\* { ...a, ...b }
Spread(a, b) ==
    [k \in DOMAIN a \cup DOMAIN b |-> IF k \in DOMAIN b THEN b[k] ELSE a[k]]

\* the options given to the constructor; "" and << >> stand for an absent option
LoggerOptions ==
    [service : {"", "api"}, level : {"", "debug", "warn", "error"},
     format : {"", "pretty"}, colors : {TRUE}, context : Contexts,
     requestId : {<< >>, << "given", 1 >>}]

\* generateRequestId(): the n-th identifier drawn
generateRequestId(n) == << "uuid", n >>

\* new Logger(options), n being the number of Loggers constructed before
Logger(options, n) ==
    [service |-> IF options.service # "" THEN options.service ELSE "app",
     level |-> IF options.level # "" THEN options.level ELSE "info",
     format |-> IF options.format # "" THEN options.format ELSE "json",
     enableColors |-> options.colors # FALSE,
     context |-> options.context,
     requestId |-> IF options.requestId # << >> THEN options.requestId
                   ELSE generateRequestId(n + 1)]

\* shouldLog with a strict comparison
shouldLog_Strict(this, level) == levels[level] > levels[this.level]

\* shouldLog(level)
shouldLog(this, level) == levels[level] >= levels[this.level]

\* the entry log() builds (the timestamp, a clock reading, is left out)
Entry(this, level, message) ==
    Spread([k \in {"level", "service", "message"} |->
               CASE k = "level" -> level [] k = "service" -> this.service
                 [] OTHER -> message],
           this.context)

\* log(level, message): the entries written to the console
log(this, level, message) ==
    IF ~shouldLog(this, level) THEN << >>
    ELSE << [entry |-> Entry(this, level, message), requestId |-> this.requestId] >>

\* child() adding the context to the parent's own context object
child_SharesContext(this, context, n) ==
    [child |-> Logger([service |-> this.service, level |-> this.level,
                       format |-> this.format, colors |-> this.enableColors,
                       context |-> Spread(this.context, context),
                       requestId |-> this.requestId], n),
     this |-> [this EXCEPT !.context = Spread(this.context, context)]]

\* child(context): the new Logger, and the parent after the call
child(this, context, n) ==
    [child |-> Logger([service |-> this.service, level |-> this.level,
                       format |-> this.format, colors |-> this.enableColors,
                       context |-> Spread(this.context, context),
                       requestId |-> this.requestId], n),
     this |-> this]

Child(p, context) ==
    /\ Len(loggers) < MaxLoggers
    /\ p \in 1..Len(loggers)
    /\ LET r == child(loggers[p], context, Len(loggers))
       IN  loggers' = Append([loggers EXCEPT ![p] = r.this], r.child)
    /\ UNCHANGED << console, logCalls >>
    /\ UNCHANGED << portsVars, svcVars, cleanVars, doctorVars,
                    healthVars, runDoctorVars, inspectorVars >>

Log(i, level, message) ==
    /\ Len(logCalls) < MaxLogCalls
    /\ i \in 1..Len(loggers)
    /\ logCalls' = Append(logCalls, [logger |-> i, level |-> level, message |-> message])
    /\ console' = console \o log(loggers[i], level, message)
    /\ UNCHANGED loggers
    /\ UNCHANGED << portsVars, svcVars, cleanVars, doctorVars,
                    healthVars, runDoctorVars, inspectorVars >>

LoggerInit ==
    /\ PortsIdle /\ SvcIdle /\ CleanIdle /\ DoctorIdle
        /\ HealthIdle /\ RunDoctorIdle /\ InspectorIdle
    /\ \E options \in LoggerOptions : loggers = << Logger(options, 0) >>
    /\ console = << >>
    /\ logCalls = << >>

LoggerNext ==
    \/ \E p \in 1..Len(loggers), context \in Contexts : Child(p, context)
    \/ \E i \in 1..Len(loggers), level \in LevelNames : Log(i, level, "hello")

LoggerSpec == LoggerInit /\ [][LoggerNext]_vars

\* the order of the levels: debug < info < warn < error
AtOrAbove(l, configured) ==
    \/ configured = "debug"
    \/ configured = "info" /\ l \in {"info", "warn", "error"}
    \/ configured = "warn" /\ l \in {"warn", "error"}
    \/ configured = "error" /\ l = "error"

\* the calls of log() that are at or above their logger's level
PassingCalls ==
    SelectSeq(logCalls, LAMBDA c : AtOrAbove(c.level, loggers[c.logger].level))

\* C18: shouldLog(l) is true exactly when l is at or above the logger's
\* level in the order debug < info < warn < error, and the console holds one
\* entry for each log() call at or above the level, in call order, and no other
C18_LogRespectsLevels ==
    /\ \A i \in 1..Len(loggers), l \in {"debug", "info", "warn", "error"} :
           shouldLog(loggers[i], l) <=> AtOrAbove(l, loggers[i].level)
    /\ Len(console) = Len(PassingCalls)
    /\ \A k \in 1..Len(console) :
           /\ console[k].entry["level"] = PassingCalls[k].level
           /\ console[k].entry["message"] = PassingCalls[k].message
           /\ console[k].requestId = loggers[PassingCalls[k].logger].requestId

\* C18 witness: a logger at level warn was asked to log at info and then at
\* error, and only the second call wrote an entry
C18_Witness ==
    /\ Len(logCalls) = 2 /\ Len(console) = 1
    /\ logCalls[1].logger = 1 /\ logCalls[2].logger = 1
    /\ loggers[1].level = "warn"
    /\ logCalls[1].level = "info" /\ logCalls[2].level = "error"
    /\ console[1].entry["level"] = "error"

\* C19: a step that creates a child of logger p with context ctx appends a
\* logger with p's service, level, format and request id, whose context has
\* the keys of both contexts, the values of ctx where ctx has the key and
\* those of p's context elsewhere, and leaves every existing logger, p and its
\* context included, as it was
C19_ChildKeepsParent ==
    [][\A p \in 1..Len(loggers), ctx \in Contexts :
          Child(p, ctx) =>
              LET c == loggers'[Len(loggers')]
              IN  /\ Len(loggers') = Len(loggers) + 1
                  /\ c.service = loggers[p].service
                  /\ c.level = loggers[p].level
                  /\ c.format = loggers[p].format
                  /\ c.requestId = loggers[p].requestId
                  /\ DOMAIN c.context = DOMAIN loggers[p].context \cup DOMAIN ctx
                  /\ \A k \in DOMAIN ctx : c.context[k] = ctx[k]
                  /\ \A k \in DOMAIN loggers[p].context \ DOMAIN ctx :
                         c.context[k] = loggers[p].context[k]
                  /\ \A i \in 1..Len(loggers) : loggers'[i] = loggers[i]]_vars

\* C19 witness: a child of a logger with context user = "a" and a generated
\* request id was created with user = "b", env = "x"; the child has the
\* parent's request id and the new user, the parent still has user = "a"
C19_Witness ==
    /\ Len(loggers) = 2
    /\ loggers[1].requestId = generateRequestId(1)
    /\ loggers[2].requestId = loggers[1].requestId
    /\ loggers[1].context = [k \in {"user"} |-> "a"]
    /\ DOMAIN loggers[2].context = {"user", "env"}
    /\ loggers[2].context["user"] = "b"
    /\ loggers[2].level = loggers[1].level /\ loggers[2].service = "app"

-----------------------------------------------------------------------------
(* Further properties of the ports command *)

\* C21: in every result of a scan, a result with inUse = false has no
\* occupant, and a result with inUse = true holds exactly what the occupant
\* lookup for its port returned: null when it found no occupant, the occupant
\* otherwise
C21_OccupantOnlyWhenResolved ==
    [][/\ \A i \in 1..Len(results') :
              ~results'[i].inUse => results'[i].process = NoProc
       /\ \A util \in SpawnOutcomes, tl \in SpawnOutcomes :
              (ScanResolve(util, tl) \/ spResolve(util, tl)) =>
                  /\ Len(results') = Len(results) + 1
                  /\ Last(results').inUse
                  /\ Last(results').port = port
                  /\ Last(results').process = getProcessUsingPort(port, util, tl)]_vars

\* C21 witness: a range scan has ended with a port in use whose occupant was
\* resolved, a port in use whose occupant was not, and a free port
C21_Witness ==
    /\ op = "scanPorts" /\ pc = "done" /\ Len(results) = 3
    /\ results[1].inUse /\ results[1].process # NoProc
    /\ results[2].inUse /\ results[2].process = NoProc
    /\ ~results[3].inUse /\ results[3].process = NoProc

\* C22: the probe holds no port once it has returned; a single-port probe
\* that found the port free, with no step of another process since, leaves
\* the port free for any process to bind, and a second probe of the same port
\* finds it free again
C22_ProbeReleasesBind ==
    /\ phase = "call" => selfBound = {}
    /\ (SinglePort /\ Ended /\ envSteps = 0
           /\ probeLog # << >> /\ probeLog[1].outcome = "ok") =>
          /\ HasSaid("available")
          /\ (pc \in {"done", "finished"} /\ port \in EnvPorts) =>
                 listener[port] = NoPid /\ port \notin selfBound
          /\ Len(probeLog) >= 2 =>
                 probeLog[2].port = probeLog[1].port /\ probeLog[2].outcome = "ok"
          /\ pc = "finished" => Last(output).msg = "healthy"

\* C22 witness: port 3000 was probed twice, nothing else happened, and both
\* probes bound it
C22_Witness ==
    /\ SinglePort /\ pc = "finished" /\ envSteps = 0 /\ port = 3000
    /\ Len(probeLog) = 2
    /\ probeLog[1].outcome = "ok" /\ probeLog[2].outcome = "ok"

\* the number of results of ports found in use
RECURSIVE InUseCount(_)
InUseCount(res) ==
    IF res = << >> THEN 0
    ELSE (IF Head(res).inUse THEN 1 ELSE 0) + InUseCount(Tail(res))

\* C23: in a scan at most one port is being handled at any time: the probe
\* holds at most one port, the probes made are those of the ports that have
\* their result plus at most the one in progress, results arrive in probe
\* order, a lookup starts only when the probe of its port has completed, and
\* there is one lookup per port found in use
C23_ScanIsSequential ==
    (ScanMode \/ op = "scanPorts") =>
        /\ Cardinality(selfBound) <= 1
        /\ Len(probeLog) - Len(results) \in {0, 1}
        /\ \A i \in 1..Len(results) : results[i].port = probeLog[i].port
        /\ \A i \in 1..Len(probeLog) :
               probeLog[i].port = IF ScanMode THEN commonPorts[i] ELSE startPort + i - 1
        /\ pc \in {"scan_resolve", "sp_resolve"} =>
               /\ phase = "call"
               /\ Len(probeLog) = Len(results) + 1
               /\ Last(probeLog).port = port
               /\ Len(lookupLog) = InUseCount(results)
        /\ pc \in {"scan_probe", "sp_probe"} =>
               /\ Len(probeLog) = Len(results) + (IF phase = "call" THEN 0 ELSE 1)
               /\ Len(lookupLog) = InUseCount(results)
        /\ pc = "done" => Len(lookupLog) = InUseCount(results) /\ selfBound = {}

\* C23 witness: in a scan the second port is being looked up after the first
\* port, in use too, has its result
C23_Witness ==
    /\ ScanMode /\ pc = "scan_resolve" /\ port = 3001
    /\ Len(results) = 1 /\ results[1].inUse
    /\ Len(probeLog) = 2 /\ Len(lookupLog) = 1

\* C24: a run issues at most one termination command; it is the forceful
\* command of the platform (kill -9 on POSIX, taskkill /F on Windows), aimed
\* at the pid the lookup returned for the port of the run
C24_SingleForcefulCommand ==
    /\ Len(killLog) <= 1
    /\ \A k \in 1..Len(killLog) :
           /\ proc # NoProc
           /\ killLog[k].command.pid = proc.pid
           /\ killLog[k].port = port
           /\ lookupLog = << port >>
           /\ IF platform = "win32"
              THEN killLog[k].command.prog = "taskkill" /\ killLog[k].command.flag = "/F"
              ELSE killLog[k].command.prog = "kill" /\ killLog[k].command.flag = "-9"

\* C24 witness: on Windows a termination command has failed and the run has
\* ended without another one
C24_Witness ==
    /\ platform = "win32" /\ SinglePort /\ pc = "done"
    /\ Len(killLog) = 1 /\ ~killLog[1].success
    /\ killLog[1].command.pid # NoPid

-----------------------------------------------------------------------------
(* Further properties of the service manager *)

\* process.kill(pid, 'SIGTERM') was called for the child and did not throw
Stopped(c) ==
    \E k \in 1..Len(sigLog) : sigLog[k].pid = c /\ sigLog[k].sig = "SIGTERM" /\ sigLog[k].ok

\* process.kill was never called for the child
Unsignalled(c) == \A k \in 1..Len(sigLog) : sigLog[k].pid # c

\* C25, as stated: once a service was stopped and a new child started under
\* the same name, the registry entry of the name refers to the new child for
\* as long as that child is alive and was not stopped itself, whatever events
\* of the old child arrive
C25_RestartKeepsNewEntry ==
    \A old \in 1..Len(children), new \in 1..Len(children) :
        (/\ old < new
         /\ children[old].name = children[new].name
         /\ Stopped(old)
         /\ \A later \in (new + 1)..Len(children) :
                children[later].name # children[new].name
         /\ children[new].state = "alive"
         /\ Unsignalled(new)) =>
            /\ MapHas(runningProcesses, children[new].name)
            /\ MapGet(runningProcesses, children[new].name) = new

-----------------------------------------------------------------------------
(* The health checker, lib/health.mjs *)

\* os.totalmem(), in the unit memFree is counted in; even, so that the usage
\* can fall on a half percent
MemTotal == 200

\* Math.round(((total - free) / total) * 100): halves round up
usagePercent(total, free) == (2 * (total - free) * 100 + total) \div (2 * total)

\* the conditional expression of lines 57-58, tested in the order written
memoryStatus(percent) ==
    IF percent > 90 THEN "warning"
    ELSE IF percent > 95 THEN "critical"
    ELSE "healthy"

checkMemory(free) ==
    [status       |-> memoryStatus(usagePercent(MemTotal, free)),
     usagePercent |-> usagePercent(MemTotal, free)]

\* one call of checkMemory on a machine with memFree free memory
CheckMemory ==
    /\ hcPc = "idle"
    /\ memResult' = checkMemory(memFree)
    /\ hcPc' = "returned"
    /\ UNCHANGED << memFree, hcChecks, hcOverall, hcStatusCode >>
    /\ UNCHANGED << portsVars, svcVars, cleanVars, doctorVars, loggerVars,
                    runDoctorVars, inspectorVars >>

MemoryInit ==
    /\ PortsIdle /\ SvcIdle /\ CleanIdle /\ DoctorIdle /\ LoggerIdle
    /\ RunDoctorIdle /\ InspectorIdle
    /\ memFree \in 0..MemTotal
    /\ memResult = << >>
    /\ hcChecks = << >>
    /\ hcOverall = ""
    /\ hcStatusCode = 0
    /\ hcPc = "idle"

MemoryNext == CheckMemory

MemorySpec == MemoryInit /\ [][MemoryNext]_vars

\* C27, as stated: checkMemory answers 'critical' above 95% usage, 'warning'
\* above 90% and up to 95%, and 'healthy' up to 90%
C27_MemoryClassifiedByPercent ==
    memResult # << >> =>
        memResult.status =
            IF memResult.usagePercent > 95 THEN "critical"
            ELSE IF memResult.usagePercent > 90 THEN "warning"
            ELSE "healthy"

-----------------------------------------------------------------------------
(* runHealthCheck and the health endpoint, lib/health.mjs *)

\* JavaScript values: a string, an object (its own properties in insertion
\* order), or undefined
Str(s) == [t |-> "str", s |-> s, entries |-> << >>]

Obj(entries) == [t |-> "obj", s |-> "", entries |-> entries]

Undefined == [t |-> "undef", s |-> "", entries |-> << >>]

Prop(key, value) == [key |-> key, value |-> value]

HasKey(o, k) == \E i \in 1..Len(o.entries) : o.entries[i].key = k

\* o[k]; reading a property of a string gives undefined
Get(o, k) ==
    IF HasKey(o, k)
    THEN o.entries[CHOOSE i \in 1..Len(o.entries) : o.entries[i].key = k].value
    ELSE Undefined

\* o[k] = v: an existing key keeps its place
Put(o, k, v) ==
    IF HasKey(o, k)
    THEN Obj([i \in 1..Len(o.entries) |->
                 IF o.entries[i].key = k THEN Prop(k, v) ELSE o.entries[i]])
    ELSE Obj(Append(o.entries, Prop(k, v)))

\* the value counts as true in a condition
Truthy(v) == v.t = "obj" \/ (v.t = "str" /\ v.s # "")

\* the object a check returns, { status, ... }: its data and message are
\* read by nothing
CheckResult(status) == Obj(<< Prop("status", Str(status)) >>)

\* the free memory of the health runs: usage 50% and 98%
MemSamples == {100, 4}

HealthUrl == "http://localhost:3000/health"

\* new URL(url) does not throw
ValidURL(url) == url = HealthUrl

\* `port_${port}`
PortKey(portNo) == IF portNo = 3000 THEN "port_3000" ELSE "port_5173"

\* what the checks find on the machine
HealthEnvs ==
    [cwdStat     : BOOLEAN,                        \* fs.statSync(process.cwd()) succeeds
     pkgJson     : {"missing", "invalid", "valid"},
     nodeModules : BOOLEAN,
     git         : {"norepo", "clean", "dirty"},
     statusFile  : BOOLEAN,                        \* a file named status exists
     endpoint    : {"expected", "other", "error"},
     portFree    : BOOLEAN]

DefaultOptions ==
    [includeSystem |-> TRUE, includeNetwork |-> TRUE, includeDatabase |-> FALSE,
     includeFileSystem |-> TRUE, includeDependencies |-> TRUE, includeGit |-> TRUE,
     endpoints |-> << >>, ports |-> << >>, files |-> << >>]

\* the options the runs are called with: the defaults, or some groups of
\* checks switched, with the lists of endpoints, ports and files
HealthOptions ==
    { [o EXCEPT !.endpoints = e, !.ports = p, !.files = f] :
        o \in { DefaultOptions,
                [DefaultOptions EXCEPT !.includeSystem = FALSE,
                                       !.includeDependencies = FALSE],
                [DefaultOptions EXCEPT !.includeNetwork = FALSE,
                                       !.includeFileSystem = FALSE,
                                       !.includeGit = FALSE],
                [DefaultOptions EXCEPT !.includeDatabase = TRUE] },
        e \in { << >>, << HealthUrl >>, << "status" >> },
        p \in { << >>, << 3000 >> },
        f \in { << >>, << "package.json" >>, << "package.json", "status" >> } }

checkDiskSpace(env) ==
    IF env.cwdStat THEN CheckResult("healthy")
    ELSE CheckResult("error")

checkCPU == CheckResult("healthy")

checkUptime == CheckResult("healthy")

checkSystemHealth(free, env) ==
    Obj(<< Prop("memory", CheckResult(checkMemory(free).status)),
           Prop("disk", checkDiskSpace(env)),
           Prop("cpu", checkCPU),
           Prop("uptime", checkUptime) >>)

checkDependencies(env) ==
    IF env.pkgJson = "missing" THEN CheckResult("error")
    ELSE IF env.pkgJson = "invalid"
    THEN CheckResult("error")
    ELSE IF env.nodeModules THEN CheckResult("healthy")
    ELSE CheckResult("warning")

\* spawnSync reports a failure in its result, so the catch of lines 289-294
\* is never entered
checkGitStatus(env) ==
    IF env.git = "norepo" THEN CheckResult("warning")
    ELSE IF env.git = "clean" THEN CheckResult("healthy")
    ELSE CheckResult("warning")

\* fs.statSync(filePath) succeeds
StatOk(filePath, env) ==
    IF filePath = "package.json" THEN env.pkgJson # "missing" ELSE env.statusFile

RECURSIVE checkFileSystemFrom(_, _, _)
checkFileSystemFrom(paths, env, found) ==
    IF paths = << >> THEN found
    ELSE checkFileSystemFrom(Tail(paths), env,
            Put(found, Head(paths),
                IF StatOk(Head(paths), env)
                THEN CheckResult("healthy")
                ELSE CheckResult("error")))

checkFileSystem(paths, env) == checkFileSystemFrom(paths, env, Obj(<< >>))

checkEndpoint(url, env) ==
    IF ~ValidURL(url) THEN CheckResult("error")
    ELSE IF env.endpoint = "expected" THEN CheckResult("healthy")
    ELSE IF env.endpoint = "other" THEN CheckResult("warning")
    ELSE CheckResult("error")

healthCheckPort(portNo, env) ==
    IF env.portFree THEN CheckResult("healthy")
    ELSE CheckResult("warning")

RECURSIVE networkEndpoints(_, _, _)
networkEndpoints(endpoints, env, network) ==
    IF endpoints = << >> THEN network
    ELSE networkEndpoints(Tail(endpoints), env,
            Put(network, Head(endpoints), checkEndpoint(Head(endpoints), env)))

RECURSIVE networkPorts(_, _, _)
networkPorts(ports, env, network) ==
    IF ports = << >> THEN network
    ELSE networkPorts(Tail(ports), env,
            Put(network, PortKey(Head(ports)), healthCheckPort(Head(ports), env)))

\* the checks that were flattened, each with the path of keys it was found
\* under: a value whose status property counts as true is taken as one check,
\* any other object is descended into
RECURSIVE flattenChecks(_, _)
flattenChecks(checks, prefix) ==
    IF checks.entries = << >> THEN << >>
    ELSE LET key   == Head(checks.entries).key
             value == Head(checks.entries).value
         IN  (IF Truthy(Get(value, "status"))
              THEN << [name |-> Append(prefix, key), check |-> value] >>
              ELSE IF value.t = "obj"
              THEN flattenChecks(value, Append(prefix, key))
              ELSE << >>)
             \o flattenChecks(Obj(Tail(checks.entries)), prefix)

\* results.checks as lines 317-361 build it
collectChecks(options, free, env) ==
    LET c1 == IF options.includeSystem
              THEN Put(Obj(<< >>), "system", checkSystemHealth(free, env))
              ELSE Obj(<< >>)
        c2 == IF options.includeDependencies
              THEN Put(c1, "dependencies", checkDependencies(env)) ELSE c1
        c3 == IF options.includeGit
              THEN Put(c2, "git", checkGitStatus(env)) ELSE c2
        c4 == IF options.includeFileSystem /\ Len(options.files) > 0
              THEN Put(c3, "filesystem", checkFileSystem(options.files, env)) ELSE c3
        c5 == IF options.includeNetwork
              THEN Put(c4, "network",
                       networkPorts(options.ports, env,
                           networkEndpoints(options.endpoints, env, Obj(<< >>))))
              ELSE c4
    IN  IF options.includeDatabase
        THEN Put(c5, "database",
                 CheckResult("not_implemented"))
        ELSE c5

\* allChecks.filter(check => check.status === status).length > 0
hasStatus(allChecks, status) ==
    \E i \in 1..Len(allChecks) : Get(allChecks[i].check, "status") = Str(status)

runHealthCheck(options, free, env) ==
    LET checks    == collectChecks(options, free, env)
        allChecks == flattenChecks(checks, << >>)
    IN  [checks  |-> checks,
         overall |-> IF hasStatus(allChecks, "error") THEN "critical"
                     ELSE IF hasStatus(allChecks, "warning") THEN "warning"
                     ELSE "healthy"]

\* one call of runHealthCheck(options)
RunHealthCheck(options, env) ==
    /\ hcPc = "idle"
    /\ \E health \in {runHealthCheck(options, memFree, env)} :
           /\ hcChecks' = health.checks
           /\ hcOverall' = health.overall
    /\ hcPc' = "returned"
    /\ UNCHANGED << memFree, memResult, hcStatusCode >>
    /\ UNCHANGED << portsVars, svcVars, cleanVars, doctorVars, loggerVars,
                    runDoctorVars, inspectorVars >>

\* one request to the handler createHealthEndpoint returns
HealthEndpoint(env) ==
    /\ hcPc = "idle"
    /\ \E health \in {runHealthCheck(DefaultOptions, memFree, env)} :
           /\ hcChecks' = health.checks
           /\ hcOverall' = health.overall
           /\ hcStatusCode' = IF health.overall = "critical" THEN 503
                              ELSE IF health.overall = "warning" THEN 200 ELSE 200
    /\ hcPc' = "responded"
    /\ UNCHANGED << memFree, memResult >>
    /\ UNCHANGED << portsVars, svcVars, cleanVars, doctorVars, loggerVars,
                    runDoctorVars, inspectorVars >>

HealthInit ==
    /\ PortsIdle /\ SvcIdle /\ CleanIdle /\ DoctorIdle /\ LoggerIdle
    /\ RunDoctorIdle /\ InspectorIdle
    /\ memFree \in MemSamples
    /\ memResult = << >>
    /\ hcChecks = << >>
    /\ hcOverall = ""
    /\ hcStatusCode = 0
    /\ hcPc = "idle"

HealthNext ==
    \/ \E options \in HealthOptions, env \in HealthEnvs : RunHealthCheck(options, env)
    \/ \E env \in HealthEnvs : HealthEndpoint(env)

HealthSpec == HealthInit /\ [][HealthNext]_vars

\* the statuses of the check results found in an object at any depth
RECURSIVE NestedStatuses(_)
NestedStatuses(o) ==
    UNION { LET value == o.entries[i].value
            IN  IF value.t # "obj" THEN {}
                ELSE (IF Get(value, "status").t = "str"
                      THEN {Get(value, "status").s} ELSE {})
                     \cup NestedStatuses(value) :
            i \in 1..Len(o.entries) }

\* C26, as stated: overall is 'critical' exactly when a collected check at any
\* depth has status 'error', 'warning' exactly when none has 'error' and one
\* has 'warning', 'healthy' otherwise; the endpoint answers 503 exactly when
\* overall is 'critical' and 200 otherwise
C26_OverallFromAllChecks ==
    hcPc # "idle" =>
        /\ hcOverall = IF "error" \in NestedStatuses(hcChecks) THEN "critical"
                       ELSE IF "warning" \in NestedStatuses(hcChecks) THEN "warning"
                       ELSE "healthy"
        /\ hcPc = "responded" =>
               hcStatusCode = IF hcOverall = "critical" THEN 503 ELSE 200

-----------------------------------------------------------------------------
(* runDoctor, scripts/doctor.mjs *)

\* what the checks of runDoctor find in the working directory
Projects ==
    [typed       : BOOLEAN,                          \* projectType !== 'unknown'
     git         : {"none", "clean", "dirty"},
     nodeModules : BOOLEAN,
     lockFile    : BOOLEAN,
     pkgJson     : {"missing", "invalid", "valid"},  \* package.json; invalid: not JSON
     configFile  : {"missing", "invalid", "valid"},  \* the file the project type lists
     ts          : {"none", "valid", "issues"},
     eslint      : {"none", "installed", "missing"}]

checkFile_NeverParses(content, expectJson, required) ==
    IF content # "missing"
    THEN [failed |-> FALSE, warned |-> FALSE]
    ELSE [failed |-> required, warned |-> ~required]

\* checkFile on a file with the given content: whether it sets failed,
\* whether it warns
checkFile(content, expectJson, required) ==
    IF content # "missing" /\ (expectJson => content = "valid")
    THEN [failed |-> FALSE, warned |-> FALSE]
    ELSE [failed |-> required, warned |-> ~required]

Running == drPc \notin {"idle", "returned", "exited"}

\* runDoctor is called: at the start of the process, or again after a run
\* that returned
RdStart ==
    /\ drPc \in {"idle", "returned"}
    /\ drPc' = "git"
    /\ drThrew' = FALSE
    /\ warnings' = {}
    /\ UNCHANGED << project, failed, exitStatus >>
    /\ UNCHANGED << portsVars, svcVars, cleanVars, doctorVars, loggerVars,
                    healthVars, inspectorVars >>

\* lines 303-315
RdGit ==
    /\ drPc = "git"
    /\ warnings' = warnings \cup
           (IF project.git = "none" THEN {"Not a git repository or git not available"}
            ELSE IF project.git = "dirty" THEN {"uncommitted changes"} ELSE {})
    /\ drPc' = "dependencies"
    /\ UNCHANGED << project, failed, drThrew, exitStatus >>
    /\ UNCHANGED << portsVars, svcVars, cleanVars, doctorVars, loggerVars,
                    healthVars, inspectorVars >>

\* lines 317-332
RdDependencies ==
    /\ drPc = "dependencies"
    /\ failed' = (IF project.nodeModules THEN failed ELSE TRUE)
    /\ warnings' = warnings \cup
           (IF project.lockFile THEN {} ELSE {"No lock file found"})
    /\ drPc' = "files"
    /\ UNCHANGED << project, drThrew, exitStatus >>
    /\ UNCHANGED << portsVars, svcVars, cleanVars, doctorVars, loggerVars,
                    healthVars, inspectorVars >>

\* lines 334-341
RdProjectFiles ==
    /\ drPc = "files"
    /\ LET pkg    == checkFile(project.pkgJson, TRUE, TRUE)
           config == IF project.typed
                     THEN checkFile(project.configFile, FALSE, FALSE)
                     ELSE [failed |-> FALSE, warned |-> FALSE]
       IN  /\ failed' = (failed \/ pkg.failed \/ config.failed)
           /\ warnings' = warnings \cup
                  (IF pkg.warned \/ config.warned
                   THEN {"optional file missing"} ELSE {})
    /\ drPc' = "typescript"
    /\ UNCHANGED << project, drThrew, exitStatus >>
    /\ UNCHANGED << portsVars, svcVars, cleanVars, doctorVars, loggerVars,
                    healthVars, inspectorVars >>

\* lines 343-357
RdTypeScript ==
    /\ drPc = "typescript"
    /\ warnings' = warnings \cup
           (IF project.ts = "issues"
            THEN {"TypeScript compilation issues detected"} ELSE {})
    /\ drPc' = "eslint"
    /\ UNCHANGED << project, failed, drThrew, exitStatus >>
    /\ UNCHANGED << portsVars, svcVars, cleanVars, doctorVars, loggerVars,
                    healthVars, inspectorVars >>

\* lines 359-371
RdESLint ==
    /\ drPc = "eslint"
    /\ warnings' = warnings \cup
           (IF project.eslint = "missing"
            THEN {"ESLint configuration found but not installed"} ELSE {})
    /\ drPc' = "ports"
    /\ UNCHANGED << project, failed, drThrew, exitStatus >>
    /\ UNCHANGED << portsVars, svcVars, cleanVars, doctorVars, loggerVars,
                    healthVars, inspectorVars >>

\* lines 373-386: some port of the list is in use, or none
RdPorts(inUse) ==
    /\ drPc = "ports"
    /\ warnings' = warnings \cup (IF inUse THEN {"Port in use"} ELSE {})
    /\ drPc' = "services"
    /\ UNCHANGED << project, failed, drThrew, exitStatus >>
    /\ UNCHANGED << portsVars, svcVars, cleanVars, doctorVars, loggerVars,
                    healthVars, inspectorVars >>

\* lines 388-417: a service that does not respond is reported with info;
\* then failed decides between process.exit(1) and returning
RdServices(responding) ==
    /\ drPc = "services"
    /\ IF failed
       THEN drPc' = "exited" /\ exitStatus' = 1
       ELSE drPc' = "returned" /\ UNCHANGED exitStatus
    /\ UNCHANGED << project, failed, drThrew, warnings >>
    /\ UNCHANGED << portsVars, svcVars, cleanVars, doctorVars, loggerVars,
                    healthVars, inspectorVars >>

\* lines 420-424: an exception anywhere inside the try block
RdCatch ==
    /\ Running
    /\ drThrew' = TRUE
    /\ drPc' = "exited"
    /\ exitStatus' = 1
    /\ UNCHANGED << project, failed, warnings >>
    /\ UNCHANGED << portsVars, svcVars, cleanVars, doctorVars, loggerVars,
                    healthVars, inspectorVars >>

\* line 435: runDoctor returned and nothing is left to do
ProcessEnds ==
    /\ drPc = "returned"
    /\ drPc' = "exited"
    /\ exitStatus' = 0
    /\ UNCHANGED << project, failed, drThrew, warnings >>
    /\ UNCHANGED << portsVars, svcVars, cleanVars, doctorVars, loggerVars,
                    healthVars, inspectorVars >>

RunDoctorInit ==
    /\ PortsIdle /\ SvcIdle /\ CleanIdle /\ DoctorIdle /\ LoggerIdle
    /\ HealthIdle /\ InspectorIdle
    /\ project \in Projects
    /\ failed = FALSE
    /\ drPc = "idle"
    /\ drThrew = FALSE
    /\ exitStatus = -1
    /\ warnings = {}

RunDoctorNext ==
    \/ RdStart
    \/ RdGit
    \/ RdDependencies
    \/ RdProjectFiles
    \/ RdTypeScript
    \/ RdESLint
    \/ \E inUse \in BOOLEAN : RdPorts(inUse)
    \/ \E responding \in BOOLEAN : RdServices(responding)
    \/ RdCatch
    \/ ProcessEnds

RunDoctorSpec == RunDoctorInit /\ [][RunDoctorNext]_vars

\* C28: the doctor process ends with status 1 exactly when the dependencies
\* are not installed, package.json is missing or not valid JSON, or an
\* exception was thrown; otherwise it ends with 0, whatever was warned about
C28_ExitOneIffCritical ==
    drPc = "exited" =>
        /\ exitStatus \in {0, 1}
        /\ exitStatus = 1 <=>
               \/ ~project.nodeModules
               \/ project.pkgJson # "valid"
               \/ drThrew

\* a run that warned about everything it can warn about and ended with 0
C28_Witness ==
    /\ drPc = "exited"
    /\ exitStatus = 0
    /\ Cardinality(warnings) >= 6

-----------------------------------------------------------------------------
(* Further properties of the clean command *)

\* what cleanPattern returns for the pattern in a dry run
dryCleaned(pat, fsys) ==
    cleanPattern(CHOOSE files \in Orders(globSync(pat, fsys)) : TRUE, TRUE, fsys).cleaned

RECURSIVE dryPatterns(_, _)
dryPatterns(pats, fsys) ==
    IF pats = << >> THEN 0
    ELSE dryCleaned(Head(pats), fsys) + dryPatterns(Tail(pats), fsys)

\* the totalCleaned a dry run of runClean reports for the categories
RECURSIVE DryRunTotal(_, _)
DryRunTotal(categories, fsys) ==
    IF categories = << >> THEN 0
    ELSE dryPatterns(CLEAN_PATTERNS[Head(categories)], fsys)
            + DryRunTotal(Tail(categories), fsys)

\* a finished dry run reports what DryRunTotal computes
DryRunReportsDryTotal ==
    (cleanPc = "done" /\ dry) => totalCleaned = DryRunTotal(selectedCategories, fsBefore)

\* C29, as stated: on the same filesystem and with the same options the real
\* run reports as 'Cleaned' the item count the dry run reports as 'Would clean'
C29_DryAndRealCountsAgree ==
    (cleanPc = "done" /\ ~dry) => totalCleaned = DryRunTotal(selectedCategories, fsBefore)

-----------------------------------------------------------------------------
(* The Inspector's metrics *)

\* the number of metrics kept per name
MetricsCap == 1000

\* the most recordMetric calls made under the name latency, and under any
\* other name
MaxRecorded == 1002

MaxOther == 2

MetricNames == {"latency", "errors"}

\* this.metrics.has(name)
MetricsHas(ms, name) == name \in DOMAIN ms

\* this.metrics.set(name, list)
MetricsSet(ms, name, list) ==
    [n \in DOMAIN ms \cup {name} |-> IF n = name THEN list ELSE ms[n]]

splice_DropsTail(arr, start, deleteCount) ==
    SubSeq(arr, 1, Len(arr) - deleteCount)

\* arr.splice(start, deleteCount): the array without the deleteCount elements
\* that follow the first start ones
splice(arr, start, deleteCount) ==
    SubSeq(arr, 1, start) \o SubSeq(arr, start + deleteCount + 1, Len(arr))

recordMetric(ms, name, value) ==
    LET metric == [name |-> name, value |-> value]
        pushed == Append(IF MetricsHas(ms, name) THEN ms[name] ELSE << >>, metric)
    IN  MetricsSet(ms, name,
            IF Len(pushed) > MetricsCap
            THEN splice(pushed, 0, Len(pushed) - MetricsCap)
            ELSE pushed)

\* getMetrics(name)
getMetrics(ms, name) == IF MetricsHas(ms, name) THEN ms[name] ELSE << >>

\* the number of recordMetric calls made so far under the name
Recorded(name) == IF name \in DOMAIN recorded THEN recorded[name] ELSE 0

\* one call of recordMetric(name, value); the value is the serial number of
\* the call among the calls under that name
RecordMetric(name) ==
    /\ Recorded(name) < (IF name = "latency" THEN MaxRecorded ELSE MaxOther)
    /\ metrics' = recordMetric(metrics, name, Recorded(name) + 1)
    /\ recorded' = MetricsSet(recorded, name, Recorded(name) + 1)
    /\ UNCHANGED << portsVars, svcVars, cleanVars, doctorVars, loggerVars,
                    healthVars, runDoctorVars >>

\* after new Inspector()
InspectorInit ==
    /\ PortsIdle /\ SvcIdle /\ CleanIdle /\ DoctorIdle /\ LoggerIdle
    /\ HealthIdle /\ RunDoctorIdle
    /\ metrics = << >>
    /\ recorded = << >>

InspectorNext == \E name \in MetricNames : RecordMetric(name)

InspectorSpec == InspectorInit /\ [][InspectorNext]_vars

\* the metrics kept under the name are the last min(recorded, 1000) recorded
\* under it, oldest first
KeepsMostRecent(ms, rec, name) ==
    LET kept  == IF name \in DOMAIN ms THEN ms[name] ELSE << >>
        count == IF name \in DOMAIN rec THEN rec[name] ELSE 0
    IN  /\ Len(kept) = (IF count > MetricsCap THEN MetricsCap ELSE count)
        /\ \A i \in 1..Len(kept) :
               kept[i] = [name |-> name, value |-> count - Len(kept) + i]

\* C30: after every recordMetric call each name holds at most 1000 metrics,
\* those being the most recently recorded ones under the name in recording
\* order, and the call changed the metrics of no name but its own
C30_KeepsLastThousandPerName ==
    [][\A name \in MetricNames :
          /\ Len(getMetrics(metrics', name)) <= MetricsCap
          /\ KeepsMostRecent(metrics', recorded', name)
          /\ Recorded(name)' = Recorded(name) =>
                 getMetrics(metrics', name) = getMetrics(metrics, name)]_vars

\* more than 1000 metrics were recorded under one name, and some under another
C30_Witness ==
    /\ Recorded("latency") > MetricsCap
    /\ Len(getMetrics(metrics, "latency")) = MetricsCap
    /\ Recorded("errors") > 0
    /\ Len(getMetrics(metrics, "errors")) = Recorded("errors")

====
